---- MODULE Spec2Model ----
(***************************************************************************)
(* BGG Analytics (streamlit): three pages selected by a top navbar         *)
(* (src/app.py).  Every user interaction re-executes the page's main()     *)
(* against the per-session dictionary st.session_state.  The model keeps   *)
(* that dictionary as the function ss (a key is "in session_state" iff it  *)
(* is in DOMAIN ss), the values of the widgets that have no key (the       *)
(* Ranking form, the chart selections) as separate variables, and what the *)
(* last run put on the screen as the record out.                           *)
(*                                                                         *)
(* One action = one user interaction + the complete script run(s) it       *)
(* triggers (callbacks first, then main(), then st.rerun() where the code  *)
(* asks for it, then the removal of the keys of the widgets that were not  *)
(* rendered, which is how streamlit treats widget state).                  *)
(***************************************************************************)
EXTENDS Integers, Sequences, FiniteSets, TLC

VARIABLES
    db,         \* the content of bgg.db: a sequence of game rows (read-only)
    home,       \* the data page this session works on
    page,       \* the navbar selection of app.py
    ss,         \* st.session_state
    form,       \* Ranking: values of the (unkeyed) widgets of search_form
    chart_sel,  \* point selection held by the altair chart of the page
    out,        \* what the last script run rendered
    ev,         \* the interaction that caused the last script run
    fs,         \* the file bgg.db, the st.cache_data caches of the process,
                \* the connections that a data-layer call left open
    calc        \* a frame handed to the aggregation and chart functions,
                \* and what they computed from it

vars == <<db, home, page, ss, form, chart_sel, out, ev, fs, calc>>

-----------------------------------------------------------------------------
(* Bounds of the model *)

\* number of games of the large (2010, Dice, strategy) group of MainDB
NBulk == 21
\* largest number of entries picked in one multiselect of the Ranking form
MaxPick == 1

(* Program constants *)

\* initial value and increment of the "shown" counters
SHOW_INIT == 10
SHOW_STEP == 10
\* slider defaults
RANK_DEFAULT == 10000
YEAR_LO_DEFAULT == 2005
YEAR_HI_DEFAULT == 2025
\* default of the "Impact top N" slider
TOPN_DEFAULT == 10
TOPN_MIN == 1
\* ends of the rank slider and of the year slider
RANK_MIN == 500
RANK_MAX == 28000
YEAR_MIN == 1995
YEAR_MAX == 2025

\* SQL NULL / pandas NaN / Python None in an integer column
Null == -99999

-----------------------------------------------------------------------------
(* Dictionary helpers: st.session_state *)

Has(d, k) == k \in DOMAIN d
Set(d, k, v) == (k :> v) @@ d
Del(d, K) == [k \in (DOMAIN d) \ K |-> d[k]]
\* st.session_state.get(k, default)
Get(d, k, default) == IF Has(d, k) THEN d[k] ELSE default
\* if k not in st.session_state: st.session_state.k = v
SetDefault(d, k, v) == IF Has(d, k) THEN d ELSE Set(d, k, v)
EmptyDict == [k \in {} |-> 0]

Min(a, b) == IF a <= b THEN a ELSE b

Range(s) == {s[i] : i \in 1..Len(s)}

\* s[:n]  (DataFrame.head(n), SQL LIMIT n OFFSET 0)
Head_n(s, n) == SubSeq(s, 1, Min(n, Len(s)))

-----------------------------------------------------------------------------
(* The data file.  A row of db is one game with the rows joined to it:     *)
(*   overall  rank in ranks(domain = 'overall'), Null when absent or NULL  *)
(*   doms     the other domains of ranks with a non-NULL rank              *)
(*   nulldoms the other domains of ranks whose rank is NULL                *)
(*   mechs    names in mechanics;  themes  names in categories             *)

Game(i, y, r, g, ms, ds, nds, ts) ==
    [id |-> i, year |-> y, overall |-> r, geek |-> g,
     mechs |-> ms, doms |-> ds, nulldoms |-> nds, themes |-> ts]

Bulk(i) == Game(i, 2010, 50 * i, 60 + ((7 * i) % 20),
                IF i = 1 THEN {"Cards", "Dice"} ELSE {"Dice"},
                IF i % 3 # 0 THEN {"strategy", "thematic"} ELSE {"strategy"},
                {}, {"Fantasy"})

MainDB ==
    [i \in 1..NBulk |-> Bulk(i)] \o
    << Game(101, 2005, 10000, 70, {"Cards"}, {"family"}, {}, {"War"}),
       Game(102, 2005, 300, 65, {"Cards"}, {"family"}, {}, {"War"}),
       Game(103, 2010, 10001, 50, {"Dice"}, {"strategy"}, {}, {}),
       Game(104, 2010, Null, 90, {"Dice"}, {}, {"strategy"}, {"Fantasy"}),
       Game(105, 0, 700, 55, {"Cards"}, {"family"}, {}, {}),
       Game(106, Null, Null, Null, {}, {}, {}, {}),
       Game(107, 2005, 300, 75, {"Cards"}, {"family"}, {}, {"War"}),
       Game(108, 2000, 20, 80, {"Cards"}, {"strategy"}, {}, {}) >>

\* A(rank 1, geek 8.0), B(no rank, geek 9.0), C(rank 2, geek 7.5); geek * 10
ExampleDB ==
    << Game(1, 2010, 1, 80, {"Dice"}, {"strategy"}, {}, {"Fantasy"}),
       Game(2, 2010, Null, 90, {"Dice"}, {"strategy"}, {}, {"Fantasy"}),
       Game(3, 2010, 2, 75, {"Dice"}, {"strategy"}, {}, {"Fantasy"}) >>

\* A file whose (year, mechanic) pairs are sparse: the latest year has no
\* game of the mechanic with the highest impact, and the games of
\* (2010, "Dice") all rank below RANK_MIN
SparseDB ==
    [i \in 1..(SHOW_INIT + 1) |->
        Game(200 + i, 2010, RANK_MIN + 100 * i, 60, {"Dice"}, {"strategy"}, {}, {})] \o
    << Game(212, 2005, 100, 65, {"Dice"}, {"strategy"}, {}, {}),
       Game(213, 2010, 200, 70, {"Cards"}, {"family"}, {}, {}),
       Game(214, 2015, 300, 70, {"Cards"}, {"family"}, {}, {}) >>

Databases == {MainDB, ExampleDB, SparseDB}

AllMechanics == {"Cards", "Dice"}
AllCategories == {"family", "strategy", "thematic"}

-----------------------------------------------------------------------------
(* Ordering of a listing *)

\* faulty variant of KeyLess: ORDER BY ro.rank, g.rating_geek DESC without
\* the CASE term (sqlite then sorts NULL ranks first)
KeyLessNullsFirst(a, b) ==
    \/ a.overall = Null /\ b.overall # Null
    \/ a.overall # Null /\ b.overall # Null /\ a.overall < b.overall
    \/ a.overall = b.overall /\ a.geek # Null
                             /\ (b.geek = Null \/ a.geek > b.geek)

\* ORDER BY CASE WHEN ro.rank IS NULL THEN 1 ELSE 0 END, ro.rank, g.rating_geek DESC
\* sort_values(["overall_rank","rating_geek"], ascending=[True, False]) (NaN last)
\* a strictly before b by the sort key (NULL geek is last under DESC in both)
KeyLess(a, b) ==
    LET na == IF a.overall = Null THEN 1 ELSE 0
        nb == IF b.overall = Null THEN 1 ELSE 0
    IN  \/ na < nb
        \/ na = nb /\ na = 0 /\ a.overall < b.overall
        \/ na = nb /\ (na = 1 \/ a.overall = b.overall)
                   /\ a.geek # Null
                   /\ (b.geek = Null \/ a.geek > b.geek)

\* rows with equal keys keep the order of the input (sqlite sorts on
\* (keys, insertion sequence) when a LIMIT is present; pandas sorts several
\* columns with a stable lexsort)
RECURSIVE InsertSorted(_, _)
InsertSorted(s, x) ==
    IF s = <<>> THEN <<x>>
    ELSE IF KeyLess(x, s[Len(s)])
         THEN Append(InsertSorted(SubSeq(s, 1, Len(s) - 1), x), s[Len(s)])
         ELSE Append(s, x)

RECURSIVE SortGames(_)
SortGames(s) ==
    IF s = <<>> THEN <<>>
    ELSE InsertSorted(SortGames(SubSeq(s, 1, Len(s) - 1)), s[Len(s)])

\* DataFrame.drop_duplicates(subset=["bgg_id"]): the first row of each game
AppendUnique(f, x) ==
    IF \E i \in 1..Len(f) : f[i].id = x.id THEN f ELSE Append(f, x)

RECURSIVE drop_duplicates(_)
drop_duplicates(s) ==
    IF s = <<>> THEN <<>>
    ELSE AppendUnique(drop_duplicates(SubSeq(s, 1, Len(s) - 1)), s[Len(s)])

Ids(s) == [i \in 1..Len(s) |-> s[i].id]


-----------------------------------------------------------------------------
(* What a run leaves on the screen; tiles: the st.metric tiles of the      *)
(* Mechanics drill-down                                                    *)

NoSel == <<>>

Blank ==
    [page |-> "", msg |-> "", listing |-> <<>>, total |-> 0, more |-> FALSE,
     metric |-> "", chart |-> {}, chart_drawn |-> FALSE, bar |-> {},
     sel_year |-> Null, sel_mech |-> "", sel_cat |-> "", click |-> NoSel,
     tiles |-> FALSE]

Screen(p, m) == [Blank EXCEPT !.page = p, !.msg = m]

\* faulty variant of WithListing: every row is rendered (no .head(show_n))
WithListingAll(screen, rows, show_n) ==
    [screen EXCEPT !.listing = Ids(rows),
                   !.total = Len(rows),
                   !.more = show_n < Len(rows)]

\* the listing part of a screen: the cards of rows[:show_n] and the
\* "show more" button while show_n < total
WithListing(screen, rows, show_n) ==
    [screen EXCEPT !.listing = Ids(Head_n(rows, show_n)),
                   !.total = Len(rows),
                   !.more = show_n < Len(rows)]

Result(s, o) == [ss |-> s, out |-> o]

-----------------------------------------------------------------------------
(* Ranking page: app_game_search.py *)

\* the value of the Year select box after render_sidebar's conversion:
\* "All" -> None, "<0" -> "<0", any other label -> int(label)
YearNone == [kind |-> "none", y |-> 0]
YearNeg == [kind |-> "neg", y |-> 0]
YearInt(y) == [kind |-> "int", y |-> y]

NoDomain == ""

\* get_filter_options: the options offered by the form
mechanic_options(d) == UNION {d[i].mechs : i \in 1..Len(d)}
theme_options(d) == UNION {d[i].themes : i \in 1..Len(d)}
domain_options(d) ==
    (IF \E i \in 1..Len(d) : d[i].overall # Null THEN {"overall"} ELSE {})
    \cup UNION {d[i].doms \cup d[i].nulldoms : i \in 1..Len(d)}
year_options(d) ==
    LET years_raw == {d[i].year : i \in 1..Len(d)} \ {Null}
    IN  {YearInt(y) : y \in {y \in years_raw : y > 0}}
        \cup (IF \E y \in years_raw : y <= 0 THEN {YearNeg} ELSE {})

\* faulty variant of has_domain_rank: without "AND r2.rank IS NOT NULL"
has_domain_rank_any(g, rank_domain) ==
    IF rank_domain = "overall" THEN g.overall # Null
    ELSE rank_domain \in g.doms \cup g.nulldoms

\* EXISTS (SELECT 1 FROM ranks r2 WHERE r2.bgg_id = g.bgg_id
\*         AND r2.domain = ? AND r2.rank IS NOT NULL)
has_domain_rank(g, rank_domain) ==
    IF rank_domain = "overall" THEN g.overall # Null
    ELSE rank_domain \in g.doms

\* g.year_published <= 0   /   g.year_published = ?    (NULL compares false)
year_matches(g, year) ==
    IF year.kind = "neg" THEN g.year # Null /\ g.year <= 0
    ELSE g.year # Null /\ g.year = year.y

\* faulty variant of build_game_query: the WHERE clause starts from the
\* trend pages' default base filter instead of "1=1"
build_game_query_based(g, mechanics, rank_domain, themes, year) ==
    /\ g.overall # Null /\ g.overall <= RANK_DEFAULT
    /\ g.year # Null /\ g.year >= YEAR_LO_DEFAULT /\ g.year <= YEAR_HI_DEFAULT
    /\ (year # YearNone => year_matches(g, year))
    /\ (rank_domain # NoDomain => has_domain_rank(g, rank_domain))
    /\ (mechanics # {} => g.mechs \cap mechanics # {})
    /\ (themes # {} => g.themes \cap themes # {})

\* _build_game_query: the WHERE clause as a predicate on a row of games;
\* a condition is appended only for a filter that is set
build_game_query(g, mechanics, rank_domain, themes, year) ==
    /\ TRUE
    /\ (year # YearNone => year_matches(g, year))
    /\ (rank_domain # NoDomain => has_domain_rank(g, rank_domain))
    /\ (mechanics # {} => g.mechs \cap mechanics # {})
    /\ (themes # {} => g.themes \cap themes # {})

\* the rows of the page query: WHERE ..., ORDER BY ..., LIMIT limit OFFSET offset
page_rows(matches, limit, offset) ==
    SubSeq(SortGames(matches), offset + 1, Min(offset + limit, Len(matches)))

\* query_games_page: (total, page rows)
query_games_page(d, mechanics, rank_domain, themes, year, limit, offset) ==
    LET Where(g) == build_game_query(g, mechanics, rank_domain, themes, year)
    IN  [total |-> Len(SelectSeq(d, Where)),
         page |-> page_rows(SelectSeq(d, Where), limit, offset)]

\* faulty variant of query_games_top_n: the next page by OFFSET instead of
\* a longer first page
query_games_top_n_offset(d, mechanics, rank_domain, themes, year, limit) ==
    query_games_page(d, mechanics, rank_domain, themes, year,
                     SHOW_STEP, limit - Min(limit, SHOW_STEP))

\* query_games_top_n
query_games_top_n(d, mechanics, rank_domain, themes, year, limit) ==
    query_games_page(d, mechanics, rank_domain, themes, year, limit, 0)

FormDefault ==
    [mechanics |-> {}, rank_domain |-> NoDomain, themes |-> {}, year |-> YearNone]

\* main(), lines 425-433: the session keys of the page
search_init_state(s) ==
    SetDefault(SetDefault(SetDefault(SetDefault(s,
        "search_total", Null), "search_page_df", <<>>),
        "results_show_n", SHOW_INIT), "_last_query_key", <<>>)

\* main(), lines 435-449: a submit resets the counter; the key of the query
search_query_key(s, query_key, submitted) ==
    IF submitted
    THEN Set(Set(s, "results_show_n", SHOW_INIT), "_last_query_key", query_key)
    ELSE IF s["_last_query_key"] = <<>>
    THEN Set(s, "_last_query_key", query_key)
    ELSE s

\* main(), lines 460-480: the result is stored and rendered
search_render(s, q) ==
    Result(Set(Set(s, "search_total", q.total), "search_page_df", Ids(q.page)),
           IF q.total = 0
           THEN Screen("Ranking", "no match")
           ELSE [Screen("Ranking", "") EXCEPT !.listing = Ids(q.page),
                                              !.total = q.total,
                                              !.more = Len(q.page) < q.total])

search_query(d, s, f) ==
    search_render(s, query_games_top_n(d, f.mechanics, f.rank_domain, f.themes,
                                       f.year, s["results_show_n"]))

\* main() of app_game_search.py: one script run.  f: the form's values,
\* submitted: the form's submit button.
game_search_main(d, s0, f, submitted) ==
    search_query(d,
        search_query_key(search_init_state(s0),
                         <<f.mechanics, f.rank_domain, f.themes, f.year>>,
                         submitted),
        f)

\* lines 477-480: the run in which the "show more" button returns True
\* raises the counter and calls st.rerun()
search_more_pressed(d, r1, f) ==
    game_search_main(d,
        Set(r1.ss, "results_show_n",
            Min(r1.ss["search_total"], r1.ss["results_show_n"] + SHOW_STEP)),
        f, FALSE)

search_show_more(d, s0, f) ==
    search_more_pressed(d, game_search_main(d, s0, f, FALSE), f)

-----------------------------------------------------------------------------
(* Trend pages: shared shapes *)

\* faulty variant of rank_year_filter: the rank bound is exclusive
rank_year_filter_strict(g, rank_limit, year_range) ==
    /\ g.overall # Null
    /\ g.overall < rank_limit
    /\ g.year >= year_range[1]
    /\ g.year <= year_range[2]

\* df[(df.overall_rank <= rank_limit) & (df.year >= year_range[0])
\*    & (df.year <= year_range[1])]        (a NaN rank compares False)
rank_year_filter(g, rank_limit, year_range) ==
    /\ g.overall # Null
    /\ g.overall <= rank_limit
    /\ g.year >= year_range[1]
    /\ g.year <= year_range[2]

base_filter(rows, rank_limit, year_range) ==
    LET Base(g) == rank_year_filter(g, rank_limit, year_range)
    IN  SelectSeq(rows, Base)

RECURSIVE SumGeek(_)
SumGeek(s) ==
    IF s = <<>> THEN 0
    ELSE SumGeek(SubSeq(s, 1, Len(s) - 1))
         + (IF s[Len(s)].geek = Null THEN 0 ELSE s[Len(s)].geek)

\* one group of a groupby(...).agg(count=("bgg_id","nunique"),
\* avg_geek=("rating_geek","mean")): avg_geek = geek_sum / geek_n, NaN when
\* geek_n = 0; ids are the games counted
Aggregate(y, name, rows) ==
    LET HasGeek(g) == g.geek # Null
    IN  [year |-> y, name |-> name, ids |-> Range(Ids(rows)),
         count |-> Cardinality(Range(Ids(rows))),
         geek_sum |-> SumGeek(rows), geek_n |-> Len(SelectSeq(rows, HasGeek))]

\* sorted(values): the elements of a finite set of integers, ascending
RECURSIVE SortedInts(_)
SortedInts(S) ==
    IF S = {} THEN <<>>
    ELSE LET m == CHOOSE x \in S : \A y \in S : x <= y
         IN  <<m>> \o SortedInts(S \ {m})

\* sorted(names): alphabetical order of the names the model uses
NameOrder == <<"Cards", "Dice", "family", "strategy", "thematic">>
SortedNames(S) ==
    LET In(n) == n \in S IN SelectSeq(NameOrder, In)

\* the values of a game's rows in the column a trend page groups by
ColumnValues(g, column) ==
    IF column = "mechanic" THEN g.mechs ELSE g.doms \cup g.nulldoms

\* the rows of one chart point and the chart's groups:
\* groupby(["year", column]).agg(...)
GroupRows(rows, y, k, column) ==
    LET InGroup(g) == g.year = y /\ k \in ColumnValues(g, column)
    IN  SelectSeq(rows, InGroup)

GroupBy(rows, column) ==
    {Aggregate(p[1], p[2], GroupRows(rows, p[1], p[2], column)) :
        p \in UNION {{<<rows[i].year, k>> : k \in ColumnValues(rows[i], column)} :
                        i \in 1..Len(rows)}}

-----------------------------------------------------------------------------
(* Categories page: app_category_trends.py *)

WidgetKeysCategories ==
    {"cat_rank_limit", "cat_year_range", "cat_selected_category"}

\* the categories of a game: its rows in ranks with domain != 'overall'
category_of(g) == g.doms \cup g.nulldoms

\* load_data: games with a year and an 'overall' row, one row per other domain
cat_load_data(d) ==
    LET Loaded(g) == g.year # Null /\ g.overall # Null /\ category_of(g) # {}
    IN  SelectSeq(d, Loaded)

\* query_top_mechanics_by_category: WHERE ... of the per-mechanic statistics
top_mechanics_where(g, category_domain, start_year, end_year, rank_limit) ==
    /\ g.overall # Null
    /\ g.overall <= rank_limit
    /\ category_domain \in g.doms
    /\ g.year # Null
    /\ g.year >= start_year /\ g.year <= end_year

top_mechanics_groups(rows) ==
    {LET OfMech(g) == m \in g.mechs
     IN  Aggregate(0, m, SelectSeq(rows, OfMech)) :
     m \in UNION {rows[i].mechs : i \in 1..Len(rows)}}

\* query_top_mechanics_by_category: GROUP BY m.name over the games of the
\* category within rank_limit and the (ordered) year range
query_top_mechanics_by_category(d, category_domain, year_range, rank_limit) ==
    LET start_year == Min(year_range[1], year_range[2])
        end_year == IF year_range[1] > year_range[2]
                    THEN year_range[1] ELSE year_range[2]
        Where(g) == top_mechanics_where(g, category_domain, start_year,
                                        end_year, rank_limit)
    IN  top_mechanics_groups(SelectSeq(d, Where))

\* main(), lines 387-390
cat_filter_defaults(s) ==
    SetDefault(SetDefault(s, "cat_rank_limit", RANK_DEFAULT),
               "cat_year_range", <<YEAR_LO_DEFAULT, YEAR_HI_DEFAULT>>)

\* main(), lines 438-461: the listing of the selected category
cat_listing(s, screen, games_in_range) ==
    Result(s, WithListing(screen, games_in_range,
                          Min(s["games_show_n_cat"], Len(games_in_range))))

cat_games_in_range(filtered_df, sel_cat) ==
    LET Detail(g) == sel_cat \in category_of(g)
    IN  drop_duplicates(SortGames(SelectSeq(filtered_df, Detail)))

\* main(), lines 410-436: the Category select box, the bar chart
cat_detail(d, s, filtered_df, grouped, sel_cat) ==
    cat_listing(
        SetDefault(Set(s, "cat_selected_category", sel_cat),
                   "games_show_n_cat", SHOW_INIT),
        [Screen("Categories", "") EXCEPT
            !.chart = grouped, !.chart_drawn = TRUE, !.sel_cat = sel_cat,
            !.bar = query_top_mechanics_by_category(
                        d, sel_cat, s["cat_year_range"], s["cat_rank_limit"])],
        cat_games_in_range(filtered_df, sel_cat))

\* main(), lines 405-419: prev if it is still available, else the first
cat_select(s, avail_cats) ==
    IF Get(s, "cat_selected_category", "") \in Range(avail_cats)
    THEN s["cat_selected_category"]
    ELSE avail_cats[1]

\* main(), lines 392-408
cat_chart(d, s, filtered_df, grouped) ==
    IF grouped = {}
    THEN Result(Del(s, {"cat_selected_category"}),
                Screen("Categories", "no category"))
    ELSE cat_detail(d, s, filtered_df, grouped,
                    cat_select(s, SortedNames({a.name : a \in grouped})))

cat_sidebar(d, s, raw_df) ==
    cat_chart(d, s,
              base_filter(raw_df, s["cat_rank_limit"], s["cat_year_range"]),
              GroupBy(base_filter(raw_df, s["cat_rank_limit"], s["cat_year_range"]),
                      "category"))

\* main() of app_category_trends.py: one script run
category_trends_main(d, s0) ==
    IF cat_load_data(d) = <<>>
    THEN Result(Del(s0, WidgetKeysCategories), Screen("Categories", "no data file"))
    ELSE cat_sidebar(d, cat_filter_defaults(s0), cat_load_data(d))

\* lines 458-461: the "show more" button returned True
cat_more_pressed(d, r1) ==
    category_trends_main(d,
        Set(r1.ss, "games_show_n_cat",
            Min(r1.out.total, r1.ss["games_show_n_cat"] + SHOW_STEP)))

category_show_more(d, s0) == cat_more_pressed(d, category_trends_main(d, s0))


-----------------------------------------------------------------------------
(* Mechanics page: app_mechanic_trends.py *)

\* np.log(k) in thousandths, k = 1..60
LnMilli ==
    <<0, 693, 1099, 1386, 1609, 1792, 1946, 2079, 2197, 2303, 2398, 2485,
      2565, 2639, 2708, 2773, 2833, 2890, 2944, 2996, 3045, 3091, 3135,
      3178, 3219, 3258, 3296, 3332, 3367, 3401, 3434, 3466, 3497, 3526,
      3555, 3584, 3611, 3638, 3664, 3689, 3714, 3738, 3761, 3784, 3807,
      3829, 3850, 3871, 3892, 3912, 3932, 3951, 3970, 3989, 4007, 4025,
      4043, 4060, 4078, 4094>>

\* impact = avg_geek * ln(count + 1) of group a exceeds that of group b;
\* avg_geek = geek_sum / geek_n, compared by cross-multiplication; a NaN
\* impact (geek_n = 0) is never greater
ImpactGreater(a, b) ==
    /\ a.geek_n > 0
    /\ \/ b.geek_n = 0
       \/ a.geek_sum * LnMilli[a.count + 1] * b.geek_n
            > b.geek_sum * LnMilli[b.count + 1] * a.geek_n

CountGreater(a, b) == a.count > b.count

\* load_data: games with a year, an 'overall' row and at least one mechanic
mech_load_data(d) ==
    LET Loaded(g) == g.year # Null /\ g.overall # Null /\ g.mechs # {}
    IN  SelectSeq(d, Loaded)

\* compute_impact: groupby("mechanic") over the filtered rows
compute_impact(filtered_df) ==
    {LET OfMech(g) == m \in g.mechs
     IN  Aggregate(0, m, SelectSeq(filtered_df, OfMech)) :
     m \in UNION {filtered_df[i].mechs : i \in 1..Len(filtered_df)}}

\* the first group of sort_values(..., ascending=False): groups that compare
\* equal are taken in index (alphabetical) order
FirstOf(tops) ==
    CHOOSE a \in tops : a.name = SortedNames({b.name : b \in tops})[1]

TopByImpact(G) == FirstOf({a \in G : \A b \in G : ~ImpactGreater(b, a)})
TopByCount(G) == FirstOf({a \in G : \A b \in G : ~CountGreater(b, a)})

\* impact_df.sort_values("impact", ascending=False).index.tolist()
RECURSIVE sort_by_impact(_)
sort_by_impact(G) ==
    IF G = {} THEN <<>>
    ELSE <<TopByImpact(G).name>> \o sort_by_impact(G \ {TopByImpact(G)})

\* impact_df.sort_values("count", ascending=False).index.tolist()
RECURSIVE sort_by_count(_)
sort_by_count(G) ==
    IF G = {} THEN <<>>
    ELSE <<TopByCount(G).name>> \o sort_by_count(G \ {TopByCount(G)})

WidgetKeysSidebar ==
    {"rank_limit", "year_range", "metric_radio", "use_impact_top_n",
     "mechanic_to_add"}
WidgetKeysDetail == {"detail_mechanic_box", "detail_year_box"}

\* manage_mechanic_state: the defaults of the sidebar's mechanic selection
manage_mechanic_state(s0, all_mechanics_sorted) ==
    SetDefault(SetDefault(SetDefault(s0,
        "use_impact_top_n", TRUE),
        "impact_top_n", TOPN_DEFAULT),
        "selected_mechanics", Head_n(all_mechanics_sorted, 10))

\* faulty variant of add_mechanic: line 130 is missing, the mode stays on
add_mechanic_mode_kept(s0) ==
    IF Get(s0, "mechanic_to_add", "") # ""
    THEN Set(s0, "selected_mechanics",
             SortedNames(Range(Get(s0, "selected_mechanics", <<>>))
                         \cup {s0["mechanic_to_add"]}))
    ELSE s0

\* _add_mechanic (on_change of the "mechanic_to_add" select box)
add_mechanic(s0) ==
    IF Get(s0, "mechanic_to_add", "") # ""
    THEN Set(Set(s0, "selected_mechanics",
                 SortedNames(Range(Get(s0, "selected_mechanics", <<>>))
                             \cup {s0["mechanic_to_add"]})),
             "use_impact_top_n", FALSE)
    ELSE s0

\* _remove_mechanic (on_click of the "X" button of mech_name)
remove_mechanic(s0, mech_name) ==
    Set(Set(s0, "selected_mechanics",
            SortedNames(Range(Get(s0, "selected_mechanics", <<>>)) \ {mech_name})),
        "use_impact_top_n", FALSE)

\* render_sidebar, lines 183-188 and 223-229: the keys of the radio and of
\* the search box appear with their first option
sidebar_widgets(s) ==
    SetDefault(SetDefault(s, "metric_radio", "Popularity"), "mechanic_to_add", "")

\* render_sidebar, lines 201-202: top_n is the value of the (unkeyed) slider
\* in this run, Null when the user left it alone
sidebar_top_n(s, top_n) ==
    Set(s, "impact_top_n", IF top_n = Null THEN s["impact_top_n"] ELSE top_n)

\* render_sidebar, lines 204-205
sidebar_use_top_n(s, all_sorted_by_impact) ==
    IF s["use_impact_top_n"]
    THEN Set(s, "selected_mechanics", Head_n(all_sorted_by_impact, s["impact_top_n"]))
    ELSE s

\* faulty variant of sidebar_valid: the selection is not filtered
sidebar_valid_unfiltered(s, valid_mechanics) == s

\* render_sidebar, lines 208-209
sidebar_valid(s, valid_mechanics) ==
    LET Valid(m) == m \in valid_mechanics
    IN  Set(s, "selected_mechanics", SelectSeq(s["selected_mechanics"], Valid))

\* render_sidebar: the session state it leaves
render_sidebar(s0, impact_df, top_n) ==
    sidebar_valid(
        sidebar_use_top_n(
            sidebar_top_n(
                manage_mechanic_state(sidebar_widgets(s0), sort_by_count(impact_df)),
                top_n),
            sort_by_impact(impact_df)),
        {a.name : a \in impact_df})

\* render_chart: whether the chart is drawn (not when every value is NaN)
render_chart(grouped, metric_label) ==
    /\ grouped # {}
    /\ (metric_label = "Popularity" \/ \E a \in grouped : a.geek_n > 0)

\* main(), lines 427-430
mech_filter_defaults(s) ==
    SetDefault(SetDefault(s, "rank_limit", RANK_DEFAULT),
               "year_range", <<YEAR_LO_DEFAULT, YEAR_HI_DEFAULT>>)

\* faulty variant of sync_click_year: the key of the select box is not set,
\* so the widget keeps its old value
sync_click_year_nobox(s, click, avail_years) ==
    IF click # NoSel /\ click[1] \in avail_years
    THEN Set(s, "detail_year", click[1])
    ELSE s

\* main(), lines 485-491: a click is copied into the stored selection and
\* into the keys of the two select boxes, each value if it is available
sync_click_year(s, click, avail_years) ==
    IF click # NoSel /\ click[1] \in avail_years
    THEN Set(Set(s, "detail_year", click[1]), "detail_year_box", click[1])
    ELSE s

sync_click_mech(s, click, avail_mechs) ==
    IF click # NoSel /\ click[2] \in avail_mechs
    THEN Set(Set(s, "detail_mechanic", click[2]), "detail_mechanic_box", click[2])
    ELSE s

\* main(), lines 494-498
default_year(s, avail_years) ==
    IF ~Has(s, "detail_year") \/ s["detail_year"] \notin Range(avail_years)
    THEN Set(s, "detail_year", avail_years[Len(avail_years)])
    ELSE s

\* faulty variant of default_mech: the first available mechanic in
\* alphabetical order instead of the one of highest impact
default_mech_first(s, avail_mechs, impact_ranked_mechs) ==
    IF ~Has(s, "detail_mechanic") \/ s["detail_mechanic"] \notin avail_mechs
    THEN Set(s, "detail_mechanic", SortedNames(avail_mechs)[1])
    ELSE s

default_mech(s, avail_mechs, impact_ranked_mechs) ==
    IF ~Has(s, "detail_mechanic") \/ s["detail_mechanic"] \notin avail_mechs
    THEN Set(s, "detail_mechanic", impact_ranked_mechs[1])
    ELSE s

\* main(), lines 501-504
default_boxes(s, avail_years, avail_mechs) ==
    (IF ~Has(s, "detail_year_box") \/ s["detail_year_box"] \notin avail_years
     THEN "detail_year_box" :> s["detail_year"] ELSE EmptyDict)
    @@ (IF ~Has(s, "detail_mechanic_box") \/ s["detail_mechanic_box"] \notin avail_mechs
        THEN "detail_mechanic_box" :> s["detail_mechanic"] ELSE EmptyDict)
    @@ s

\* faulty variant of read_boxes: lines 531-532 are missing
read_boxes_unstored(s) == s

\* main(), lines 507-532: the select boxes return the values of their keys
read_boxes(s) ==
    Set(Set(s, "detail_mechanic", s["detail_mechanic_box"]),
        "detail_year", s["detail_year_box"])

\* faulty variant of reset_paging: the new pair is stored, the counter is
\* left alone
reset_paging_kept(s) ==
    Set(s, "_last_selected_point", <<s["detail_year"], s["detail_mechanic"]>>)

\* main(), lines 537-540
reset_paging(s) ==
    IF Get(s, "_last_selected_point", NoSel) # <<s["detail_year"], s["detail_mechanic"]>>
    THEN Set(Set(s, "_last_selected_point", <<s["detail_year"], s["detail_mechanic"]>>),
             "games_show_n", SHOW_INIT)
    ELSE s

\* main(), lines 470-532: the drill-down selection of this run
mech_selection(s, click, avail_years, avail_mechs, impact_df) ==
    read_boxes(
        default_boxes(
            default_mech(
                default_year(
                    sync_click_mech(
                        sync_click_year(s, click, Range(avail_years)),
                        click, avail_mechs),
                    avail_years),
                avail_mechs,
                sort_by_impact({a \in impact_df : a.name \in avail_mechs})),
            Range(avail_years), avail_mechs))

\* main(), lines 570-575
mech_games_in_year(filtered_df, sel_year, sel_mech) ==
    LET InYear(g) == g.year = sel_year /\ sel_mech \in g.mechs
    IN  drop_duplicates(SortGames(SelectSeq(filtered_df, InYear)))

\* main(), lines 577-592
mech_listing(s, screen, games_in_year) ==
    Result(s, WithListing(screen, games_in_year,
                          Min(s["games_show_n"], Len(games_in_year))))

\* main(), lines 534-594: statistics and listing of the selected point
mech_detail(s, filtered_df, grouped, screen) ==
    IF ~(screen.sel_mech # "" /\ screen.sel_year # 0)
    THEN Result(s, screen)
    ELSE IF ~\E a \in grouped : a.year = screen.sel_year /\ a.name = screen.sel_mech
    THEN Result(reset_paging(s), [screen EXCEPT !.msg = "node not found"])
    ELSE mech_listing(SetDefault(reset_paging(s), "games_show_n", SHOW_INIT),
                      [screen EXCEPT !.tiles = TRUE],
                      mech_games_in_year(filtered_df, screen.sel_year, screen.sel_mech))

mech_drill_down(s, filtered_df, grouped, click, drawn) ==
    mech_detail(s, filtered_df, grouped,
                [Screen("Mechanics", "") EXCEPT
                    !.metric = s["metric_radio"], !.chart = grouped,
                    !.chart_drawn = drawn, !.click = click,
                    !.sel_year = s["detail_year"],
                    !.sel_mech = s["detail_mechanic"]])

\* main(), lines 463-470: the chart and the selection it returns
\* (extract_selection gives (None, None) when no chart state exists)
mech_chart(s, filtered_df, grouped, impact_df, selection, drawn) ==
    mech_drill_down(
        mech_selection(s, IF drawn THEN selection ELSE NoSel,
                       SortedInts({a.year : a \in grouped}),
                       {a.name : a \in grouped}, impact_df),
        filtered_df, grouped, IF drawn THEN selection ELSE NoSel, drawn)

\* filtered_df[filtered_df["mechanic"].isin(selected_mechanics)]: of every
\* game the rows of the selected mechanics
selected_rows(filtered_df, selected_mechanics) ==
    LET Charted(g) == g.mechs # {}
    IN  SelectSeq([i \in 1..Len(filtered_df) |->
                      [filtered_df[i] EXCEPT !.mechs = @ \cap selected_mechanics]],
                  Charted)

\* faulty variant of mech_aggregate: the check of the empty filtered frame
\* (lines 442-444) is missing
mech_aggregate_unchecked(s, filtered_df, impact_df, selection) ==
    IF Range(s["selected_mechanics"]) = {}
    THEN Result(Del(s, WidgetKeysDetail), Screen("Mechanics", "no mechanic"))
    ELSE Result(Del(s, WidgetKeysDetail), Screen("Mechanics", "no chart data"))

\* main(), lines 442-461
mech_aggregate(s, filtered_df, impact_df, selection) ==
    LET selected_mechanics == Range(s["selected_mechanics"])
        grouped == GroupBy(selected_rows(filtered_df, selected_mechanics), "mechanic")
    IN  IF filtered_df = <<>>
        THEN Result(Del(s, WidgetKeysDetail), Screen("Mechanics", "no data"))
        ELSE IF selected_mechanics = {}
        THEN Result(Del(s, WidgetKeysDetail), Screen("Mechanics", "no mechanic"))
        ELSE IF grouped = {}
        THEN Result(Del(s, WidgetKeysDetail), Screen("Mechanics", "no chart data"))
        ELSE mech_chart(s, filtered_df, grouped, impact_df, selection,
                        render_chart(grouped, s["metric_radio"]))

\* main(), lines 432-440
mech_sidebar(s, raw_df, impact_df, selection, top_n) ==
    mech_aggregate(render_sidebar(s, impact_df, top_n),
                   base_filter(raw_df, s["rank_limit"], s["year_range"]),
                   impact_df, selection)

mech_impact(s, raw_df, selection, top_n) ==
    mech_sidebar(s, raw_df,
                 compute_impact(base_filter(raw_df, s["rank_limit"], s["year_range"])),
                 selection, top_n)

\* main() of app_mechanic_trends.py: one script run.  selection: the point
\* selection the chart holds if it is drawn in this run; top_n: see
\* sidebar_top_n.
mechanic_trends_main(d, s0, selection, top_n) ==
    IF mech_load_data(d) = <<>>
    THEN Result(Del(s0, WidgetKeysSidebar \cup WidgetKeysDetail),
                Screen("Mechanics", "no data file"))
    ELSE mech_impact(mech_filter_defaults(s0), mech_load_data(d), selection, top_n)

\* faulty variant of mech_more_pressed: the counter is not capped at the total
mech_more_pressed_uncapped(d, r1, selection) ==
    mechanic_trends_main(d,
        Set(r1.ss, "games_show_n", r1.ss["games_show_n"] + SHOW_STEP),
        selection, Null)

\* lines 589-592: the "show more" button returned True
mech_more_pressed(d, r1, selection) ==
    mechanic_trends_main(d,
        Set(r1.ss, "games_show_n",
            Min(r1.out.total, r1.ss["games_show_n"] + SHOW_STEP)),
        selection, Null)

mechanic_show_more(d, s0, selection) ==
    mech_more_pressed(d, mechanic_trends_main(d, s0, selection, Null), selection)

-----------------------------------------------------------------------------
(* The session.  app.py starts on the first navbar entry (Mechanics).  The *)
(* three data pages keep disjoint session keys, so a session is followed   *)
(* on one data page (home) and on the page without data ("Other").  In    *)
(* this specification bgg.db is in place and intact throughout.            *)

Homes == {"Mechanics", "Categories", "Ranking"}

\* positions of the rank and year sliders that the interactions move to
RankLimits == {RANK_MIN, RANK_DEFAULT}
YearRanges == {<<YEAR_LO_DEFAULT, YEAR_HI_DEFAULT>>, <<YEAR_MIN, YEAR_LO_DEFAULT>>}

Event(type) == [type |-> type]

\* the selections of a multiselect
Picks(options) == {S \in SUBSET options : Cardinality(S) <= MaxPick}

\* the values the Ranking form can be submitted with
Forms(d) ==
    [mechanics : Picks(mechanic_options(d)),
     rank_domain : {NoDomain} \cup domain_options(d),
     themes : Picks(theme_options(d)),
     year : {YearNone} \cup year_options(d)]

\* bgg.db is in place with its tables since the process started; nothing is
\* cached by st.cache_data yet and no connection is open
FsIntact ==
    [file |-> "data", origin |-> "data", env |-> 0,
     loads |-> [f \in {"mech_load", "cat_load", "options"} |-> "none"],
     top |-> {}, pages |-> {}, unclosed |-> {}]

\* no frame is being aggregated
CalcIdle ==
    [rows |-> <<>>, metric_label |-> "", mech_df |-> <<>>, done |-> {},
     group |-> {}, lines |-> {}, tile |-> {}, bars |-> <<>>]

\* the points of the chart on the screen
ChartPoints == {<<a.year, a.name>> : a \in out.chart}

Init ==
    /\ db \in Databases
    /\ home \in Homes
    /\ page = "Mechanics"
    /\ form = FormDefault
    /\ chart_sel = NoSel
    /\ \E r \in {mechanic_trends_main(db, EmptyDict, NoSel, Null)} :
          ss = r.ss /\ out = r.out
    /\ ev = Event("start")
    /\ fs = FsIntact
    /\ calc = CalcIdle

\* A script run of the Mechanics page from session state s_in.  The chart
\* keeps its point selection while it is unchanged; when a run draws another
\* chart the selection is kept or lost.
MechRerun(s_in, top_n, type) ==
    \E keep \in IF chart_sel = NoSel THEN {TRUE} ELSE BOOLEAN :
      \E r \in {mechanic_trends_main(db, s_in,
                                     IF keep THEN chart_sel ELSE NoSel, top_n)} :
        /\ keep \/ r.out.chart # out.chart \/ r.out.metric # out.metric
        /\ ss' = r.ss
        /\ out' = r.out
        /\ chart_sel' = r.out.click
        /\ ev' = Event(type)
        /\ UNCHANGED <<calc, fs, db, home, page, form>>

\* the sidebar of the Mechanics page is on the screen
OnMechanics == page = "Mechanics" /\ home = "Mechanics" /\ out.msg # "no data file"

\* the two select boxes of the drill-down are on the screen
DrillDown == OnMechanics /\ out.sel_mech # ""

MechSetRankLimit(v) ==
    /\ OnMechanics
    /\ v # ss["rank_limit"]
    /\ MechRerun(Set(ss, "rank_limit", v), Null, "rank_limit")

MechSetYearRange(yr) ==
    /\ OnMechanics
    /\ yr # ss["year_range"]
    /\ MechRerun(Set(ss, "year_range", yr), Null, "year_range")

\* a click on a point of the chart (on_select = "rerun")
MechClick(p) ==
    /\ OnMechanics
    /\ out.chart_drawn
    /\ p \in ChartPoints
    /\ p # chart_sel
    /\ \E r \in {mechanic_trends_main(db, ss, p, Null)} :
          ss' = r.ss /\ out' = r.out /\ chart_sel' = r.out.click
    /\ ev' = Event("click")
    /\ UNCHANGED <<calc, fs, db, home, page, form>>

\* a click on the empty area of the chart clears the selection
MechClearClick ==
    /\ OnMechanics
    /\ chart_sel # NoSel
    /\ \E r \in {mechanic_trends_main(db, ss, NoSel, Null)} :
          ss' = r.ss /\ out' = r.out /\ chart_sel' = r.out.click
    /\ ev' = Event("clear")
    /\ UNCHANGED <<calc, fs, db, home, page, form>>

\* the "Mechanic" select box
MechSelectMechanic(m) ==
    /\ DrillDown
    /\ m \in {a.name : a \in out.chart}
    /\ m # ss["detail_mechanic_box"]
    /\ MechRerun(Set(ss, "detail_mechanic_box", m), Null, "mechanic_box")

\* the "Year" select box
MechSelectYear(y) ==
    /\ DrillDown
    /\ y \in {a.year : a \in out.chart}
    /\ y # ss["detail_year_box"]
    /\ MechRerun(Set(ss, "detail_year_box", y), Null, "year_box")

\* the "show more" button of the Mechanics listing
MechShowMore ==
    /\ OnMechanics
    /\ out.more
    /\ \E r \in {mechanic_show_more(db, ss, chart_sel)} :
          ss' = r.ss /\ out' = r.out /\ chart_sel' = r.out.click
    /\ ev' = Event("more")
    /\ UNCHANGED <<calc, fs, db, home, page, form>>

\* render_sidebar, lines 208-213: the mechanics with data under the filters
\* of the rendered sidebar, and those of them that are not selected
valid_mechanics(d, s) ==
    {a.name : a \in compute_impact(base_filter(mech_load_data(d),
                                               s["rank_limit"], s["year_range"]))}

remaining(d, s) == valid_mechanics(d, s) \ Range(s["selected_mechanics"])

\* positions of the "top N" slider that the interactions move to
TopNs == {TOPN_MIN, TOPN_DEFAULT}

\* the "use Impact top N" check box
MechToggleTopN ==
    /\ OnMechanics
    /\ MechRerun(Set(ss, "use_impact_top_n", ~ss["use_impact_top_n"]), Null,
                 "top_n_mode")

\* the "top N" slider
MechSetTopN(n) ==
    /\ OnMechanics
    /\ n # ss["impact_top_n"]
    /\ MechRerun(ss, n, "top_n")

\* the search box is moved to m (an entry of its options, lines 218-221):
\* on_change runs _add_mechanic before the script
MechAddMechanic(m) ==
    /\ OnMechanics
    /\ m \in {""} \cup remaining(db, ss)
    /\ m # ss["mechanic_to_add"]
    /\ MechRerun(add_mechanic(Set(ss, "mechanic_to_add", m)), Null, "add")

\* the "X" button of m: on_click runs _remove_mechanic(m) before the script
MechRemoveMechanic(m) ==
    /\ OnMechanics
    /\ m \in Range(ss["selected_mechanics"])
    /\ MechRerun(remove_mechanic(ss, m), Null, "remove")

OnCategories == page = "Categories" /\ out.msg # "no data file"

CatRerun(s_in, type) ==
    /\ \E r \in {category_trends_main(db, s_in)} : ss' = r.ss /\ out' = r.out
    /\ ev' = Event(type)
    /\ UNCHANGED <<calc, fs, db, home, page, form, chart_sel>>

CatSetRankLimit(v) ==
    /\ OnCategories
    /\ v # ss["cat_rank_limit"]
    /\ CatRerun(Set(ss, "cat_rank_limit", v), "rank_limit")

CatSetYearRange(yr) ==
    /\ OnCategories
    /\ yr # ss["cat_year_range"]
    /\ CatRerun(Set(ss, "cat_year_range", yr), "year_range")

\* the "Category" select box
CatSelectCategory(c) ==
    /\ OnCategories
    /\ c \in {a.name : a \in out.chart}
    /\ c # ss["cat_selected_category"]
    /\ CatRerun(Set(ss, "cat_selected_category", c), "category")

\* a click on a point of the Categories chart: the run's chart_state is
\* assigned in main() and not read
CatClick(p) ==
    /\ OnCategories
    /\ p \in ChartPoints
    /\ p # chart_sel
    /\ \E r \in {category_trends_main(db, ss)} : ss' = r.ss /\ out' = r.out
    /\ chart_sel' = p
    /\ ev' = Event("click")
    /\ UNCHANGED <<calc, fs, db, home, page, form>>

\* the "show more" button of the Categories listing
CatShowMore ==
    /\ OnCategories
    /\ out.more
    /\ \E r \in {category_show_more(db, ss)} : ss' = r.ss /\ out' = r.out
    /\ ev' = Event("more")
    /\ UNCHANGED <<calc, fs, db, home, page, form, chart_sel>>

\* the submit button of search_form with the form's widgets at f.  What a
\* submit leaves behind does not depend on the values submitted before, so
\* between two submits at most one widget of the form is changed
SearchSubmit(f) ==
    /\ page = "Ranking"
    /\ Cardinality({k \in DOMAIN f : f[k] # form[k]}) <= 1
    /\ \E r \in {game_search_main(db, ss, f, TRUE)} : ss' = r.ss /\ out' = r.out
    /\ form' = f
    /\ ev' = Event("submit")
    /\ UNCHANGED <<calc, fs, db, home, page, chart_sel>>

\* the "show more" button of the Ranking listing
SearchShowMore ==
    /\ page = "Ranking"
    /\ out.more
    /\ \E r \in {search_show_more(db, ss, form)} : ss' = r.ss /\ out' = r.out
    /\ ev' = Event("more")
    /\ UNCHANGED <<calc, fs, db, home, page, form, chart_sel>>

\* the keys of the widgets of every page: a widget that a run does not
\* render loses its state
WidgetKeys == WidgetKeysSidebar \cup WidgetKeysDetail \cup WidgetKeysCategories

\* app.py, lines 42-51: the script run of page p
Dispatch(p, s) ==
    IF p = "Mechanics" THEN mechanic_trends_main(db, s, NoSel, Null)
    ELSE IF p = "Categories" THEN category_trends_main(db, s)
    ELSE IF p = "Ranking" THEN game_search_main(db, s, FormDefault, FALSE)
    ELSE Result(s, Screen("Other", ""))

\* the navbar
Navigate(p) ==
    /\ p \in {home, "Other"}
    /\ p # page
    /\ page' = p
    /\ \E r \in {Dispatch(p, Del(ss, WidgetKeys))} : ss' = r.ss /\ out' = r.out
    /\ form' = FormDefault
    /\ chart_sel' = NoSel
    /\ ev' = Event("navigate")
    /\ UNCHANGED <<calc, fs, db, home>>

Next ==
    \/ \E v \in RankLimits : MechSetRankLimit(v)
    \/ \E yr \in YearRanges : MechSetYearRange(yr)
    \/ \E p \in ChartPoints : MechClick(p)
    \/ MechClearClick
    \/ \E m \in AllMechanics : MechSelectMechanic(m)
    \/ \E y \in YEAR_MIN..YEAR_MAX : MechSelectYear(y)
    \/ MechShowMore
    \/ MechToggleTopN
    \/ \E n \in TopNs : MechSetTopN(n)
    \/ \E m \in {""} \cup AllMechanics : MechAddMechanic(m)
    \/ \E m \in AllMechanics : MechRemoveMechanic(m)
    \/ \E v \in RankLimits : CatSetRankLimit(v)
    \/ \E yr \in YearRanges : CatSetYearRange(yr)
    \/ \E c \in AllCategories : CatSelectCategory(c)
    \/ \E p \in ChartPoints : CatClick(p)
    \/ CatShowMore
    \/ \E f \in Forms(db) : SearchSubmit(f)
    \/ SearchShowMore
    \/ \E p \in Homes \cup {"Other"} : Navigate(p)

Spec == Init /\ [][Next]_vars

-----------------------------------------------------------------------------
(* Sessions in which bgg.db is missing or damaged *)

\* The states of the file bgg.db: "absent", "broken" (the file exists and
\* holds no tables, as the empty file sqlite3.connect creates) and "data"
\* (the tables hold db).  fs.origin is the state in which the process
\* started, fs.env counts the changes made to the file from outside.
\* fs.loads, fs.top and fs.pages are the results st.cache_data holds, which
\* live as long as the process; fs.unclosed names the data-layer functions
\* that have returned with their connection still open.
FileStates == {"absent", "broken", "data"}

\* changes of bgg.db from outside the application in one model run
MaxEnv == 2

\* sqlite3.connect(db_path): a file that does not exist is created empty
connect(f) == IF f.file = "absent" THEN [f EXCEPT !.file = "broken"] ELSE f

\* load_data of a trend page: the cached result if there is one; else an
\* empty frame if the file does not exist, the rows of a file with tables,
\* and an exception of the query on a file without tables
trend_load(f, loader) ==
    IF f.loads[loader] # "none" THEN f.loads[loader]
    ELSE IF f.file = "absent" THEN "empty"
    ELSE IF f.file = "broken" THEN "raise"
    ELSE "data"

\* the outcome of a script run: session state, screen, files and caches
Run(s, o, f) == [ss |-> s, out |-> o, fs |-> f]

\* a run that completes: the state of the widgets it did not render is
\* removed.  A run that ends in an uncaught exception keeps them.
Completed(r, f, own) == Run(Del(r.ss, WidgetKeys \ own), r.out, f)

\* main() of app_mechanic_trends.py with load_data (lines 26-57, 418)
fs_mechanics(f, d, s_raw) ==
    IF trend_load(f, "mech_load") = "raise"
    THEN Run(s_raw, Screen("Mechanics", "exception"), f)
    ELSE Completed(
            mechanic_trends_main(
                IF trend_load(f, "mech_load") = "data" THEN d ELSE <<>>,
                Del(s_raw, WidgetKeys \ (WidgetKeysSidebar \cup WidgetKeysDetail)),
                NoSel, Null),
            [f EXCEPT !.loads["mech_load"] = trend_load(f, "mech_load")],
            WidgetKeysSidebar \cup WidgetKeysDetail)

\* faulty variant of fs_top_mechanics: the exception of the query is
\* swallowed, and the run goes on with no bar chart and no message
fs_top_mechanics_swallow(f, s_raw, s_in, r) ==
    IF r.out.sel_cat = ""
          \/ <<r.out.sel_cat, r.ss["cat_year_range"], r.ss["cat_rank_limit"]>> \in f.top
    THEN Completed(r, f, WidgetKeysCategories)
    ELSE IF f.file = "data"
    THEN Completed(r,
            [f EXCEPT !.top = @ \cup {<<r.out.sel_cat, r.ss["cat_year_range"],
                                        r.ss["cat_rank_limit"]>>}],
            WidgetKeysCategories)
    ELSE Completed([r EXCEPT !.out.bar = {}], connect(f), WidgetKeysCategories)

\* main() of app_category_trends.py, lines 422-433: r is the run with the
\* data at hand.  query_top_mechanics_by_category connects without looking
\* for the file; a result not in the cache needs the tables, and the
\* exception of the query ends the run after the line chart
fs_top_mechanics(f, s_raw, s_in, r) ==
    IF r.out.sel_cat = ""
    THEN Completed(r, f, WidgetKeysCategories)
    ELSE IF <<r.out.sel_cat, r.ss["cat_year_range"], r.ss["cat_rank_limit"]>> \in f.top
    THEN Completed(r, f, WidgetKeysCategories)
    ELSE IF f.file = "data"
    THEN Completed(r,
            [f EXCEPT !.top = @ \cup {<<r.out.sel_cat, r.ss["cat_year_range"],
                                        r.ss["cat_rank_limit"]>>}],
            WidgetKeysCategories)
    ELSE Run((IF Has(s_in, "games_show_n_cat") THEN r.ss
              ELSE Del(r.ss, {"games_show_n_cat"})) @@ s_raw,
             [Screen("Categories", "exception") EXCEPT
                 !.chart = r.out.chart, !.chart_drawn = TRUE,
                 !.sel_cat = r.out.sel_cat],
             connect(f))

\* main() of app_category_trends.py with load_data (lines 25-58, 382)
fs_categories_loaded(f, d, s_raw, s_in) ==
    fs_top_mechanics([f EXCEPT !.loads["cat_load"] = trend_load(f, "cat_load")],
                     s_raw, s_in,
                     category_trends_main(
                         IF trend_load(f, "cat_load") = "data" THEN d ELSE <<>>,
                         s_in))

fs_categories(f, d, s_raw) ==
    IF trend_load(f, "cat_load") = "raise"
    THEN Run(s_raw, Screen("Categories", "exception"), f)
    ELSE fs_categories_loaded(f, d, s_raw, Del(s_raw, WidgetKeys \ WidgetKeysCategories))

\* main() of app_game_search.py, lines 452-459: query_games_page connects
\* and closes only after its queries (lines 152-218); r is the run with the
\* data at hand, s_in the session state the run starts from
fs_query_games(f, s_raw, s_in, fm, r) ==
    IF <<fm, r.ss["results_show_n"]>> \in f.pages
    THEN Completed(r, f, {})
    ELSE IF f.file = "data"
    THEN Completed(r, [f EXCEPT !.pages = @ \cup {<<fm, r.ss["results_show_n"]>>}], {})
    ELSE Run([k \in DOMAIN r.ss \ {"search_total", "search_page_df"} |-> r.ss[k]]
                @@ search_init_state(s_in) @@ s_raw,
             Screen("Ranking", "exception"),
             [connect(f) EXCEPT !.unclosed = @ \cup {"query_games_page"}])

\* main() of app_game_search.py with get_filter_options (lines 24-72): the
\* options come from the cache or from a file with tables; main() catches
\* the exception of get_filter_options, reports it and returns (415-419)
fs_search(f, d, s_raw, fm, submitted) ==
    IF f.loads["options"] = "none" /\ f.file # "data"
    THEN Run(Del(s_raw, WidgetKeys), Screen("Ranking", "error"),
             [connect(f) EXCEPT !.unclosed = @ \cup {"get_filter_options"}])
    ELSE fs_query_games([f EXCEPT !.loads["options"] = "data"],
                        s_raw, Del(s_raw, WidgetKeys), fm,
                        game_search_main(d, Del(s_raw, WidgetKeys), fm, submitted))

\* app.py, lines 42-51, with the files and caches f
fs_dispatch(f, d, p, s) ==
    IF p = "Mechanics" THEN fs_mechanics(f, d, s)
    ELSE IF p = "Categories" THEN fs_categories(f, d, s)
    ELSE IF p = "Ranking" THEN fs_search(f, d, s, FormDefault, FALSE)
    ELSE Run(Del(s, WidgetKeys), Screen("Other", ""), f)

FsRun(r, type) ==
    /\ ss' = r.ss
    /\ out' = r.out
    /\ fs' = r.fs
    /\ ev' = Event(type)

\* the navbar: every page, in any order
FsNavigate(p) ==
    /\ p # page
    /\ page' = p
    /\ \E r \in {fs_dispatch(fs, db, p, ss)} : FsRun(r, "navigate")
    /\ UNCHANGED <<calc, db, home, form, chart_sel>>

\* the rank slider of the Categories page
FsCatSetRankLimit(v) ==
    /\ page = "Categories"
    /\ out.chart_drawn
    /\ v # ss["cat_rank_limit"]
    /\ \E r \in {fs_categories(fs, db, Set(ss, "cat_rank_limit", v))} :
          FsRun(r, "rank_limit")
    /\ UNCHANGED <<calc, db, home, page, form, chart_sel>>

\* the "show more" button of the Ranking listing: the run of the press reads
\* the page the screen shows from the cache, raises the counter and reruns
FsSearchShowMore ==
    /\ page = "Ranking"
    /\ out.more
    /\ \E r \in {fs_search(fs, db,
                           Set(ss, "results_show_n",
                               Min(ss["search_total"],
                                   ss["results_show_n"] + SHOW_STEP)),
                           form, FALSE)} :
          FsRun(r, "more")
    /\ UNCHANGED <<calc, db, home, page, form, chart_sel>>

\* the "Rerun" command of the Streamlit menu: the script runs again
FsRerun ==
    /\ \E r \in {fs_dispatch(fs, db, page, ss)} : FsRun(r, "rerun")
    /\ UNCHANGED <<calc, db, home, page, form, chart_sel>>

\* outside the application bgg.db is removed, emptied or put in place
EnvFile(x) ==
    /\ fs.env < MaxEnv
    /\ x # fs.file
    /\ fs' = [fs EXCEPT !.file = x, !.env = @ + 1]
    /\ ev' = Event("env")
    /\ UNCHANGED <<calc, db, home, page, ss, form, chart_sel, out>>

\* the process starts with bgg.db in any state; the first run shows the
\* Mechanics page (app.py, line 26)
InitFS ==
    /\ db \in Databases
    /\ home = "Mechanics"
    /\ page = "Mechanics"
    /\ form = FormDefault
    /\ chart_sel = NoSel
    /\ ev = Event("start")
    /\ calc = CalcIdle
    /\ \E x \in FileStates :
          \E r \in {fs_mechanics([FsIntact EXCEPT !.file = x, !.origin = x],
                                 db, EmptyDict)} :
             ss = r.ss /\ out = r.out /\ fs = r.fs

NextFS ==
    \/ \E p \in Homes \cup {"Other"} : FsNavigate(p)
    \/ \E v \in RankLimits : FsCatSetRankLimit(v)
    \/ FsSearchShowMore
    \/ FsRerun
    \/ \E x \in FileStates : EnvFile(x)

SpecFS == InitFS /\ [][NextFS]_vars

-----------------------------------------------------------------------------
(* The aggregation and chart functions applied to a frame *)

\* Values are kept in thousandths; Null stands for NaN.  Ratings are kept
\* in tenths (see Game), so a mean of geek_sum / geek_n tenths is
\* geek_sum * 100 / geek_n thousandths.

\* the labels of the metric radio (by their first word, as the code reads
\* them with startswith)
Metrics == {"Popularity", "Quality", "Impact"}

\* rows of one frame, mechanics of one bar chart
MaxRows == 3
MaxBars == 22

\* .head(20) of render_mechanic_bar_chart
BAR_TOP == 20

\* agg(avg_geek=("rating_geek", "mean")): the mean of the ratings that are
\* not missing, NaN when there is none
avg_geek(a) ==
    IF a.geek_n = 0 THEN Null ELSE (a.geek_sum * 100) \div a.geek_n

\* faulty variant of times_log: x * np.log(n)
times_log_count(x, n) ==
    IF x = Null THEN Null ELSE (x * LnMilli[n]) \div 1000

\* x * np.log(n + 1)
times_log(x, n) ==
    IF x = Null THEN Null ELSE (x * LnMilli[n + 1]) \div 1000

\* compute_impact, line 104: the column "impact"
impact_column(a) == times_log(avg_geek(a), a.count)

\* render_chart of app_mechanic_trends.py, lines 248-256: the column "value"
chart_value(a, metric_label) ==
    IF metric_label = "Popularity" THEN a.count * 1000
    ELSE IF metric_label = "Quality" THEN avg_geek(a)
    ELSE times_log(avg_geek(a), a.count)

\* render_chart of app_category_trends.py, lines 250-258
cat_chart_value(a, metric_label) ==
    IF metric_label = "Popularity" THEN a.count * 1000
    ELSE IF metric_label = "Quality" THEN avg_geek(a)
    ELSE times_log(avg_geek(a), a.count)

\* render_mechanic_bar_chart, lines 303-317
bar_value(a, metric_label) ==
    IF metric_label = "Popularity" THEN a.count * 1000
    ELSE IF metric_label = "Quality" THEN avg_geek(a)
    ELSE times_log(avg_geek(a), a.count)

\* format(value, ".2f"): hundredths
Fmt2(v) == IF v = Null THEN Null ELSE (v + 5) \div 10

\* the text "-" of a st.metric tile
Dash == -1

\* main() of app_mechanic_trends.py, lines 551-557: the three tiles of the
\* drill-down; a value of None or 0.0 is shown as "-"
drill_down_metrics(a) ==
    [pop |-> a.count,
     qlty |-> IF avg_geek(a) = Null \/ avg_geek(a) = 0
              THEN Dash ELSE Fmt2(avg_geek(a)),
     imp |-> IF avg_geek(a) = Null \/ times_log(avg_geek(a), a.count) = 0
             THEN Dash ELSE Fmt2(times_log(avg_geek(a), a.count))]

\* the index of a row of largest value; of equal values sort_values keeps
\* no particular order: the first of them, or the last if rev
ArgMax(bars, rev) ==
    CHOOSE i \in DOMAIN bars :
        /\ \A j \in DOMAIN bars : bars[j].value <= bars[i].value
        /\ \A j \in DOMAIN bars :
              bars[j].value = bars[i].value => IF rev THEN j <= i ELSE i <= j

\* sort_values("value", ascending=False)
RECURSIVE sort_values(_, _)
sort_values(bars, rev) ==
    IF bars = <<>> THEN <<>>
    ELSE <<bars[ArgMax(bars, rev)]>>
         \o sort_values(SubSeq(bars, 1, ArgMax(bars, rev) - 1)
                          \o SubSeq(bars, ArgMax(bars, rev) + 1, Len(bars)),
                        rev)

\* the column "value" added to mech_df
bar_values(mech_df, metric_label) ==
    [i \in DOMAIN mech_df |->
        [name |-> mech_df[i].name, value |-> bar_value(mech_df[i], metric_label)]]

\* .dropna(subset=["value"])
dropna(bars) ==
    LET Valued(b) == b.value # Null IN SelectSeq(bars, Valued)

\* faulty variant of render_mechanic_bar_chart: head(20) of the unsorted frame
render_mechanic_bar_chart_unsorted(mech_df, metric_label, rev) ==
    Head_n(dropna(bar_values(mech_df, metric_label)), BAR_TOP)

\* render_mechanic_bar_chart, lines 296-326: the bars of the chart
render_mechanic_bar_chart(mech_df, metric_label, rev) ==
    Head_n(sort_values(dropna(bar_values(mech_df, metric_label)), rev), BAR_TOP)

\* the rows of one group: a game may have several rows, a rating may be
\* missing or 0
FrameRows == [id : 1..2, geek : {Null, 0, 70}]

Frames == UNION {[1..n -> FrameRows] : n \in 1..MaxRows}

\* the grouping of the example: 50 games of rating 7.0
ExampleGroup ==
    [year |-> 2010, name |-> "Dice", ids |-> 1..50, count |-> 50,
     geek_sum |-> 3500, geek_n |-> 50]

\* the result of query_top_mechanics_by_category for k mechanics: counts
\* and ratings vary with the pattern p; some mechanics have no rating,
\* some share their values
BarFrame(k, p) ==
    [i \in 1..k |->
        [name |-> i,
         count |-> 1 + ((i * p) % 7),
         geek_sum |-> IF (i + p) % 13 = 0 THEN 0
                      ELSE (1 + ((i * p) % 7)) * (50 + 10 * ((i * p) % 4)),
         geek_n |-> IF (i + p) % 13 = 0 THEN 0 ELSE 1 + ((i * p) % 7)]]

\* a frame and a metric are at hand, nothing is computed
InitCalc ==
    /\ db = ExampleDB
    /\ home = "Mechanics"
    /\ page = "Mechanics"
    /\ form = FormDefault
    /\ chart_sel = NoSel
    /\ ss = EmptyDict
    /\ out = Blank
    /\ ev = Event("start")
    /\ fs = FsIntact
    /\ \E m \in Metrics :
          \/ \E fr \in Frames :
                calc = [CalcIdle EXCEPT !.rows = fr, !.metric_label = m]
          \/ calc = [CalcIdle EXCEPT !.group = {ExampleGroup}, !.metric_label = m,
                                     !.done = {"groupby"}]
          \/ \E k \in 0..MaxBars, p \in 1..3 :
                calc = [CalcIdle EXCEPT !.mech_df = BarFrame(k, p),
                                       !.metric_label = m, !.done = {"query"}]

\* groupby(...).agg(count=("bgg_id", "nunique"), avg_geek=("rating_geek", "mean"))
CalcGroupBy ==
    /\ calc.rows # <<>>
    /\ "groupby" \notin calc.done
    /\ calc' = [calc EXCEPT !.group = {Aggregate(2010, "Dice", calc.rows)},
                            !.done = @ \cup {"groupby"}]
    /\ UNCHANGED <<db, home, page, ss, form, chart_sel, out, ev, fs>>

\* the impact column of compute_impact and the values of the line charts of
\* both trend pages and of a bar of the bar chart, for the group
CalcCharts ==
    /\ "groupby" \in calc.done
    /\ "charts" \notin calc.done
    /\ calc' = [calc EXCEPT
                  !.lines = {[site |-> "compute_impact", value |-> impact_column(a)] :
                                a \in calc.group}
                            \cup {[site |-> "mechanics",
                                   value |-> chart_value(a, calc.metric_label)] :
                                     a \in calc.group}
                            \cup {[site |-> "categories",
                                   value |-> cat_chart_value(a, calc.metric_label)] :
                                     a \in calc.group}
                            \cup {[site |-> "bar",
                                   value |-> bar_value(a, calc.metric_label)] :
                                     a \in calc.group},
                  !.done = @ \cup {"charts"}]
    /\ UNCHANGED <<db, home, page, ss, form, chart_sel, out, ev, fs>>

\* the tiles of the Mechanics drill-down, for the group
CalcTile ==
    /\ "charts" \in calc.done
    /\ "tile" \notin calc.done
    /\ calc' = [calc EXCEPT !.tile = {drill_down_metrics(a) : a \in calc.group},
                            !.done = @ \cup {"tile"}]
    /\ UNCHANGED <<db, home, page, ss, form, chart_sel, out, ev, fs>>

\* the bar chart of the Categories drill-down
CalcBars(rev) ==
    /\ "query" \in calc.done
    /\ "bars" \notin calc.done
    /\ calc' = [calc EXCEPT
                  !.bars = render_mechanic_bar_chart(calc.mech_df,
                                                     calc.metric_label, rev),
                  !.done = @ \cup {"bars"}]
    /\ UNCHANGED <<db, home, page, ss, form, chart_sel, out, ev, fs>>

NextCalc ==
    \/ CalcGroupBy
    \/ CalcCharts
    \/ CalcTile
    \/ \E rev \in BOOLEAN : CalcBars(rev)

SpecCalc == InitCalc /\ [][NextCalc]_vars

-----------------------------------------------------------------------------
(* Properties *)

\* the row of db with bgg_id = id
GameOf(id) == CHOOSE g \in Range(db) : g.id = id

\* the session key of the shown counter of the page on the screen
ShowKey ==
    IF page = "Mechanics" THEN "games_show_n"
    ELSE IF page = "Categories" THEN "games_show_n_cat"
    ELSE "results_show_n"

\* a game listing is on the screen
Listed == page \in Homes /\ out.total > 0

IsPrefix(s, t) == Len(s) <= Len(t) /\ SubSeq(t, 1, Len(s)) = s

\* the stored (year, mechanic) point of the Mechanics drill-down
LastPoint(s) == Get(s, "_last_selected_point", NoSel)

(* C1 *)
C1_Offered ==
    /\ Listed => (out.more <=> Len(out.listing) < out.total)
    /\ ev.type = "start" /\ Has(ss, "games_show_n") => ss["games_show_n"] = SHOW_INIT

C1_Created(k) == ~Has(ss, k) /\ Has(ss', k) => ss'[k] = SHOW_INIT

C1_Lowered(k) == Has(ss, k) /\ Has(ss', k) /\ ss'[k] < ss[k]

C1_Step ==
    /\ \A k \in {"games_show_n", "games_show_n_cat", "results_show_n"} :
          /\ C1_Created(k)
          /\ Has(ss, k) => Has(ss', k)
    /\ ev'.type = "more" =>
          /\ out.more
          /\ ss'[ShowKey] = Min(out.total, ss[ShowKey] + SHOW_STEP)
          /\ out'.total = out.total
    /\ C1_Lowered("games_show_n") =>
          ss'["games_show_n"] = SHOW_INIT /\ LastPoint(ss') # LastPoint(ss)
    /\ ~C1_Lowered("games_show_n_cat")
    /\ C1_Lowered("results_show_n") =>
          ss'["results_show_n"] = SHOW_INIT /\ ev'.type = "submit"

\* C1: on each listing the shown counter is 10 when it is created; a press
\* of "show more" sets it to min(total, counter + 10); the button is on the
\* screen exactly while fewer games than the total are displayed; and the
\* counter is lowered only by a reset to 10 (a new drill-down point on
\* Mechanics, a submit on Ranking, never on Categories).
C1_ShownCounter == [][C1_Step]_vars /\ []C1_Offered

\* a press that is capped by the total: the counter reaches a total that is
\* not a multiple of 10 and the button is gone
C1_Witness ==
    /\ ev.type = "more"
    /\ page = "Mechanics"
    /\ out.total > 2 * SHOW_STEP
    /\ ss["games_show_n"] = out.total
    /\ ~out.more

(* C2 *)
\* C2: on the Mechanics and Categories pages a change of the rank_limit or
\* of the year_range slider leaves the shown counter at 10 in the render it
\* causes.
C2_FilterChangeResets ==
    [][ev'.type \in {"rank_limit", "year_range"} /\ Has(ss', ShowKey)
          => ss'[ShowKey] = SHOW_INIT]_vars

\* after a slider change the counter is still what "show more" made it
C2_Witness ==
    /\ ev.type \in {"rank_limit", "year_range"}
    /\ page = "Categories"
    /\ Listed
    /\ ss["games_show_n_cat"] > SHOW_INIT
    /\ Len(out.listing) > SHOW_INIT

(* C3 *)
\* C3: on the Categories page the selection of another category resets
\* games_show_n_cat to 10, and the listing of the new category starts with
\* at most 10 games.
C3_CategoryChangeResets ==
    [][ev'.type = "category" /\ out'.sel_cat # out.sel_cat
          => ss'["games_show_n_cat"] = SHOW_INIT
             /\ Len(out'.listing) <= SHOW_INIT]_vars

\* the listing of a newly selected category with more than 10 games
C3_Witness ==
    /\ ev.type = "category"
    /\ ss["games_show_n_cat"] > SHOW_INIT
    /\ Len(out.listing) > SHOW_INIT

(* C4 *)
\* C4 as stated: the session counter of a listing never exceeds the total
\* of the listing.
C4_CounterWithinTotal == Listed => ss[ShowKey] <= out.total

\* C4: the number of games displayed is min(counter, total), so it never
\* exceeds the total of the listing, whatever the session counter holds.
C4_DisplayedWithinTotal ==
    Listed => /\ Len(out.listing) = Min(ss[ShowKey], out.total)
              /\ Len(out.listing) <= out.total

\* the listing shrank below the counter and everything is displayed
C4_Witness ==
    /\ Listed
    /\ ev.type \in {"rank_limit", "year_range", "category", "submit"}
    /\ ss[ShowKey] > SHOW_INIT
    /\ ss[ShowKey] > out.total
    /\ Len(out.listing) = out.total

(* C5 *)
\* the rows that match the listing on the screen, in table order
C5_Matches ==
    LET OfPoint(g) ==
            /\ g.year # Null /\ g.overall # Null
            /\ rank_year_filter(g, ss["rank_limit"], ss["year_range"])
            /\ g.year = out.sel_year /\ out.sel_mech \in g.mechs
        OfCategory(g) ==
            /\ g.year # Null /\ g.overall # Null
            /\ rank_year_filter(g, ss["cat_rank_limit"], ss["cat_year_range"])
            /\ out.sel_cat \in category_of(g)
        OfForm(g) ==
            build_game_query(g, form.mechanics, form.rank_domain, form.themes,
                             form.year)
    IN  IF page = "Mechanics" THEN SelectSeq(db, OfPoint)
        ELSE IF page = "Categories" THEN SelectSeq(db, OfCategory)
        ELSE SelectSeq(db, OfForm)

C5_Displayed ==
    Listed => out.listing = Ids(Head_n(SortGames(C5_Matches), ss[ShowKey]))

\* C5: in every render the games displayed are the first shown-counter
\* elements of the sorted list of matches (all when there are fewer), and
\* the list before a "show more" press is a prefix of the list after it.
C5_SortedPrefix ==
    /\ []C5_Displayed
    /\ [][ev'.type = "more" => /\ IsPrefix(out.listing, out'.listing)
                               /\ Len(out'.listing) > Len(out.listing)]_vars

\* a second press on the Ranking page: three renders of one listing
C5_Witness ==
    /\ ev.type = "more"
    /\ page = "Ranking"
    /\ Len(out.listing) > 2 * SHOW_STEP
    /\ Len(out.listing) = out.total

(* C6 *)
\* row a may stand before row b: rank ascending, no rank after every rank,
\* equal rank (or both without) by geek rating descending
C6_InOrder(a, b) ==
    \/ a.overall # Null /\ b.overall = Null
    \/ a.overall # Null /\ b.overall # Null /\ a.overall < b.overall
    \/ /\ a.overall = b.overall
       /\ (a.geek # Null /\ b.geek # Null => a.geek >= b.geek)

\* C6: every listing is ordered by overall rank ascending, games without
\* overall rank after all ranked games, ties by geek rating descending; the
\* table A(1, 8.0), B(none, 9.0), C(2, 7.5) is listed A, C, B.
C6_Ordering ==
    /\ Listed =>
          \A i, j \in DOMAIN out.listing :
              i < j => C6_InOrder(GameOf(out.listing[i]), GameOf(out.listing[j]))
    /\ db = ExampleDB /\ page = "Ranking" /\ form = FormDefault
          => out.listing = <<1, 3, 2>>

\* a listing with two games tied on rank and with games without rank, one
\* of them rated above every ranked game
C6_Witness ==
    /\ page = "Ranking"
    /\ \E i, j \in DOMAIN out.listing :
          /\ i < j
          /\ GameOf(out.listing[i]).overall # Null
          /\ GameOf(out.listing[i]).overall = GameOf(out.listing[j]).overall
    /\ \E i, j \in DOMAIN out.listing :
          /\ i < j
          /\ GameOf(out.listing[j]).overall = Null
          /\ GameOf(out.listing[i]).geek < GameOf(out.listing[j]).geek

(* C7 *)
\* overall_rank <= rank_limit and min_year <= year_published <= max_year
C7_InBounds(g, rank_limit, year_range) ==
    /\ g.overall # Null /\ g.year # Null
    /\ ~(g.overall > rank_limit)
    /\ ~(g.year < year_range[1])
    /\ ~(g.year > year_range[2])

\* the games of db within the bounds that have key value k in year y
C7_Mechs(g) == g.mechs
C7_Categories(g) == g.doms \cup g.nulldoms

C7_Expected(rank_limit, year_range, y, k, of_mechanic) ==
    {db[i].id : i \in {i \in DOMAIN db :
        /\ C7_InBounds(db[i], rank_limit, year_range)
        /\ (y # 0 => db[i].year = y)
        /\ k \in (IF of_mechanic THEN C7_Mechs(db[i]) ELSE C7_Categories(db[i]))}}

C7_Mechanics ==
    /\ \A a \in out.chart :
          a.ids = C7_Expected(ss["rank_limit"], ss["year_range"],
                              a.year, a.name, TRUE)
    /\ \A i \in DOMAIN db :
          /\ C7_InBounds(db[i], ss["rank_limit"], ss["year_range"])
          /\ db[i].mechs \cap Range(ss["selected_mechanics"]) # {}
          /\ out.msg \in {"", "node not found"}
          => \E a \in out.chart : db[i].id \in a.ids
    /\ Listed =>
          /\ Range(out.listing) \subseteq
                C7_Expected(ss["rank_limit"], ss["year_range"],
                            out.sel_year, out.sel_mech, TRUE)
          /\ out.total = Cardinality(
                C7_Expected(ss["rank_limit"], ss["year_range"],
                            out.sel_year, out.sel_mech, TRUE))

C7_CategoriesPage ==
    /\ \A a \in out.chart :
          a.ids = C7_Expected(ss["cat_rank_limit"], ss["cat_year_range"],
                              a.year, a.name, FALSE)
    /\ \A i \in DOMAIN db :
          /\ C7_InBounds(db[i], ss["cat_rank_limit"], ss["cat_year_range"])
          /\ C7_Categories(db[i]) # {}
          => \E a \in out.chart : db[i].id \in a.ids
    /\ \A a \in out.bar :
          a.ids = {id \in C7_Expected(ss["cat_rank_limit"], ss["cat_year_range"],
                                      0, a.name, TRUE) :
                      out.sel_cat \in GameOf(id).doms}
    /\ Listed =>
          /\ Range(out.listing) \subseteq
                C7_Expected(ss["cat_rank_limit"], ss["cat_year_range"],
                            0, out.sel_cat, FALSE)
          /\ out.total = Cardinality(
                C7_Expected(ss["cat_rank_limit"], ss["cat_year_range"],
                            0, out.sel_cat, FALSE))

\* C7: on the Mechanics and Categories pages the games behind every chart
\* aggregate and in the drill-down listing are exactly the games of the
\* group with overall_rank <= rank_limit and min_year <= year <= max_year,
\* all three bounds inclusive: none outside is counted, none inside is
\* removed.
C7_FilterInclusive ==
    /\ page = "Mechanics" /\ out.msg # "no data file" => C7_Mechanics
    /\ page = "Categories" /\ out.msg # "no data file" => C7_CategoriesPage

\* a game that sits on the rank bound and on the upper year bound is
\* counted in the chart and listed
C7_Witness ==
    /\ page \in {"Mechanics", "Categories"}
    /\ Listed
    /\ \E i \in DOMAIN out.listing :
          /\ GameOf(out.listing[i]).overall = ss[IF page = "Mechanics" THEN "rank_limit" ELSE "cat_rank_limit"]
          /\ GameOf(out.listing[i]).year = ss[IF page = "Mechanics" THEN "year_range" ELSE "cat_year_range"][2]
          /\ \E a \in out.chart : out.listing[i] \in a.ids

(* C8 *)
\* C8 as stated: every game the Ranking page lists has an overall rank
\* within the rank limit if it has one, and a year inside the year range
\* (taken at their widest: the ends of the sliders).
C8_RankingBaseFilter ==
    page = "Ranking" =>
        \A i \in DOMAIN out.listing :
            /\ GameOf(out.listing[i]).overall # Null
                  => GameOf(out.listing[i]).overall <= RANK_MAX
            /\ GameOf(out.listing[i]).year # Null
            /\ GameOf(out.listing[i]).year >= YEAR_MIN
            /\ GameOf(out.listing[i]).year <= YEAR_MAX

\* C8: the Ranking page applies no rank limit and no year range: with the
\* form left empty every game of the table is counted, and listed once the
\* counter allows, whatever its rank and year.
C8_RankingNoBaseFilter ==
    page = "Ranking" /\ form = FormDefault =>
        /\ out.total = Len(db)
        /\ Range(out.listing) \subseteq Range(Ids(db))
        /\ (ss["results_show_n"] >= Len(db) => Range(out.listing) = Range(Ids(db)))

\* the whole table is listed, with a game outside the year slider's range
\* and a game without year
C8_Witness ==
    /\ page = "Ranking"
    /\ form = FormDefault
    /\ Len(out.listing) = Len(db)
    /\ \E i \in DOMAIN out.listing :
          /\ GameOf(out.listing[i]).year # Null
          /\ GameOf(out.listing[i]).year < YEAR_MIN
    /\ \E i \in DOMAIN out.listing : GameOf(out.listing[i]).year = Null

(* C9 *)
\* game g satisfies every active filter of form f
C9_Satisfies(g, f) ==
    /\ \/ f.year = YearNone
       \/ f.year = YearNeg /\ g.year # Null /\ g.year <= 0
       \/ f.year.kind = "int" /\ g.year = f.year.y
    /\ \/ f.rank_domain = NoDomain
       \/ f.rank_domain = "overall" /\ g.overall # Null
       \/ f.rank_domain \in g.doms
    /\ \/ f.mechanics = {}
       \/ \E m \in f.mechanics : m \in g.mechs
    /\ \/ f.themes = {}
       \/ \E t \in f.themes : t \in g.themes

C9_Returned == {db[i].id : i \in {i \in DOMAIN db : C9_Satisfies(db[i], form)}}

C10_AvailYears(o) == {a.year : a \in o.chart}
C10_AvailMechs(o) == {a.name : a \in o.chart}

\* the defaults of the drill-down: the last available year, the available
\* mechanic of highest impact under the filter
C10_DefaultYear(o) == CHOOSE y \in C10_AvailYears(o) : \A z \in C10_AvailYears(o) : z <= y

C10_DefaultMech(s, o) ==
    sort_by_impact({a \in compute_impact(
                              base_filter(mech_load_data(db),
                                          s["rank_limit"], s["year_range"])) :
                       a.name \in C10_AvailMechs(o)})[1]

C10_Step ==
    page' = "Mechanics" /\ out'.click # NoSel /\ out'.sel_mech # "" =>
        /\ (out'.click[1] \in C10_AvailYears(out') /\ out'.click[2] \in C10_AvailMechs(out'))
              => out'.sel_year = out'.click[1] /\ out'.sel_mech = out'.click[2]
        /\ (out'.click[1] \notin C10_AvailYears(out') /\ ev'.type # "year_box")
              => out'.sel_year =
                    IF Get(ss, "detail_year", Null) \in C10_AvailYears(out')
                    THEN ss["detail_year"] ELSE C10_DefaultYear(out')
        /\ (out'.click[2] \notin C10_AvailMechs(out') /\ ev'.type # "mechanic_box")
              => out'.sel_mech =
                    IF Get(ss, "detail_mechanic", "") \in C10_AvailMechs(out')
                    THEN ss["detail_mechanic"] ELSE C10_DefaultMech(ss', out')

\* C10: on the Mechanics page, in a run whose chart selection carries an
\* available year and an available mechanic, the drill-down year and
\* mechanic are the clicked ones; a clicked value that is not available
\* leaves its drill-down value at the previous selection if that is still
\* available, else at the default (in a run caused by a change of the
\* select box itself, the box's new value is the selection).
C10_ClickDrivesDrillDown == [][C10_Step]_vars

\* a click on another point than the selected one has moved the drill-down
C10_Witness ==
    /\ ev.type = "click"
    /\ page = "Mechanics"
    /\ out.click # NoSel
    /\ out.sel_year = out.click[1] /\ out.sel_mech = out.click[2]
    /\ out.sel_year # C10_DefaultYear(out)
    /\ out.sel_mech # C10_DefaultMech(ss, out)

(* C11 *)
\* C11: on the Categories page a click on a chart point whose category is
\* available makes that category the drill-down's selected category in the
\* render that follows the click.
C11_ClickDrivesCategory ==
    [][ev'.type = "click" /\ page' = "Categories"
         /\ chart_sel'[2] \in {a.name : a \in out'.chart}
          => out'.sel_cat = chart_sel'[2]]_vars

\* the render after a click on a point of another category still shows
\* the category of the select box
C11_Witness ==
    /\ ev.type = "click"
    /\ page = "Categories"
    /\ chart_sel # NoSel
    /\ chart_sel[2] \in {a.name : a \in out.chart}
    /\ out.sel_cat # chart_sel[2]

(* C12 *)
\* the per-mechanic impact groups under the rank and year filter of session
\* state s, of the mechanics in the chart data of screen o
C12_ImpactGroups(s, o) ==
    {a \in compute_impact(base_filter(mech_load_data(db),
                                      s["rank_limit"], s["year_range"])) :
        a.name \in {c.name : c \in o.chart}}

\* screen o shows the default drill-down selection
C12_Default(s, o) ==
    /\ \E a \in C12_ImpactGroups(s, o) :
          /\ a.name = o.sel_mech
          /\ \A b \in C12_ImpactGroups(s, o) : ~ImpactGreater(b, a)
    /\ o.sel_year \in {c.year : c \in o.chart}
    /\ \A c \in o.chart : c.year <= o.sel_year

\* a run of the Mechanics page that shows a drill-down, without a chart
\* selection and from a session state that holds no drill-down selection
C12_Step ==
    (/\ page' = "Mechanics"
     /\ out'.sel_mech # ""
     /\ out'.click = NoSel
     /\ ~Has(ss, "detail_mechanic") /\ ~Has(ss, "detail_year")
     /\ ~Has(ss, "detail_mechanic_box") /\ ~Has(ss, "detail_year_box"))
        => C12_Default(ss', out')

\* C12: on the Mechanics page, while no drill-down selection exists (no
\* click on the chart, no stored value), the drill-down mechanic is the one
\* of highest impact under the current rank and year filter among the
\* mechanics of the chart data, and the drill-down year is the most recent
\* year of the chart data.
C12_DefaultSelection ==
    /\ (out.sel_mech # "" => C12_Default(ss, out))
    /\ [][C12_Step]_vars

\* the first drill-down of a session: two mechanics in the chart, and the
\* default is not the alphabetically first of them
C12_Witness ==
    /\ ev.type \in {"start", "rank_limit", "year_range"}
    /\ page = "Mechanics"
    /\ out.click = NoSel
    /\ ss["games_show_n"] = SHOW_INIT
    /\ Cardinality({c.name : c \in out.chart}) > 1
    /\ out.sel_mech = "Dice"
    /\ C12_Default(ss, out)
    /\ \E b \in C12_ImpactGroups(ss, out) :
          b.name = "Cards" /\ b.geek_n > 0
(* C13 *)
\* the process started without bgg.db and nobody outside the application
\* has touched the file since
C13_FileMissing == fs.origin = "absent" /\ fs.env = 0

\* the screen holds a message only
C13_Stopped(o) ==
    /\ ~o.chart_drawn /\ o.chart = {} /\ o.bar = {}
    /\ o.listing = <<>>

\* C13: when the data file is missing, every page, after any order of page
\* visits, shows a warning and stops: no uncaught exception, no chart, no
\* listing (also Categories or Mechanics visited after Ranking).
C13_MissingFileWarns ==
    C13_FileMissing /\ page \in Homes =>
        /\ out.msg \in {"no data file", "error"}
        /\ C13_Stopped(out)

\* the Categories page, first visited after the Ranking page, ends in the
\* exception of load_data's query on the empty file that the Ranking page's
\* sqlite3.connect created
C13_Witness ==
    /\ C13_FileMissing
    /\ page = "Categories"
    /\ out.msg = "exception"
    /\ fs.file = "broken"
    /\ fs.loads["cat_load"] = "none"
    /\ "get_filter_options" \in fs.unclosed
(* C14 *)
\* C14: the application never writes persisted state: no run of any page,
\* whether bgg.db is present or absent, creates, modifies or deletes the
\* data file.
C14_NoFileWritten == [][ev'.type # "env" => fs'.file = fs.file]_vars

\* a run of the application has created bgg.db: the file was absent when
\* the process started, nobody outside has touched it, and it exists
C14_Witness ==
    /\ fs.origin = "absent"
    /\ fs.env = 0
    /\ fs.file = "broken"
    /\ ev.type = "navigate"
    /\ page = "Ranking"
    /\ out.msg = "error"

(* C15 *)
\* C15: every database access is a complete open/query/close cycle: when a
\* data-layer call returns, by a value or by an exception, the connection
\* it opened is closed.
C15_ConnectionsClosed == fs.unclosed = {}

\* the paged query of the Ranking page has raised on a file without tables
\* after the options were read: conn.close() (line 218) was not reached
C15_Witness ==
    /\ page = "Ranking"
    /\ out.msg = "exception"
    /\ fs.loads["options"] = "data"
    /\ fs.unclosed = {"query_games_page"}
(* C16 *)
\* a query of the run that leads to the next state raises: its result is
\* not in the cache and bgg.db holds no tables (or, for a call that looks
\* for the file first, exists without tables)
C16_LoadRaises ==
    \/ page' = "Mechanics" /\ fs.loads["mech_load"] = "none" /\ fs.file = "broken"
    \/ page' = "Categories" /\ fs.loads["cat_load"] = "none" /\ fs.file = "broken"
    \/ page' = "Ranking" /\ fs.loads["options"] = "none" /\ fs.file # "data"

C16_TopMechanicsRaises ==
    /\ page' = "Categories"
    /\ trend_load(fs, "cat_load") = "data"
    /\ fs.file # "data"
    /\ out'.sel_cat # ""
    /\ <<out'.sel_cat, ss'["cat_year_range"], ss'["cat_rank_limit"]>> \notin fs.top

C16_PageQueryRaises ==
    /\ page' = "Ranking"
    /\ fs.loads["options"] = "data"
    /\ fs.file # "data"
    /\ <<form', ss'["results_show_n"]>> \notin fs.pages

\* with the tables in place, a run of every page from session state s
\* ends without an error
C16_Usable(s, f) ==
    \A p \in Homes :
        fs_dispatch([f EXCEPT !.file = "data"], db, p, s).out.msg
            \notin {"exception", "error"}

C16_Step ==
    ev'.type # "env" /\ (C16_LoadRaises \/ C16_TopMechanicsRaises \/ C16_PageQueryRaises)
        => /\ out'.msg \in {"exception", "error"}
           /\ out'.listing = <<>> /\ out'.bar = {}
           /\ fs'.top = fs.top /\ fs'.pages = fs.pages
           /\ C16_LoadRaises => fs'.loads = fs.loads
           /\ C16_Usable(ss', fs')

\* C16: a query exception during a run of any page (filter options, paged
\* game query, trend data load, top-mechanics query) is shown as an error
\* message of that run; the run stops there, nothing is tried again and no
\* result is stored; from the session state it leaves, the next run of
\* every page proceeds normally once the query can succeed.
C16_ExceptionSurfaced == [][C16_Step]_vars

\* the top-mechanics query has raised after the line chart was drawn, in
\* the run of a moved rank slider
C16_Witness ==
    /\ ev.type = "rank_limit"
    /\ page = "Categories"
    /\ out.msg = "exception"
    /\ out.chart_drawn
    /\ out.sel_cat # ""
    /\ fs.loads["cat_load"] = "data"
    /\ fs.file # "data"
(* C17 *)
\* no row of rows is within the rank limit and the year range
C17_NoRowPasses(rows, rank_limit, year_range) ==
    \A i \in DOMAIN rows :
        ~(/\ rows[i].overall # Null
          /\ rows[i].overall <= rank_limit
          /\ rows[i].year >= year_range[1]
          /\ rows[i].year <= year_range[2])

\* the screen holds the message m and neither a chart nor a listing
C17_MessageOnly(o, m) ==
    /\ o.msg = m
    /\ ~o.chart_drawn /\ o.chart = {} /\ o.bar = {}
    /\ o.listing = <<>> /\ ~o.more

\* C17: when the filtered result set is empty the page shows a message
\* saying so and renders no chart and no game listing: on Mechanics and on
\* Categories when no row passes the rank and year filter, on Ranking when
\* the total match count is 0.
C17_EmptyResultMessage ==
    /\ (/\ page = "Mechanics"
        /\ Has(ss, "rank_limit")
        /\ C17_NoRowPasses(mech_load_data(db), ss["rank_limit"], ss["year_range"]))
          => C17_MessageOnly(out, "no data")
    /\ (/\ page = "Categories"
        /\ Has(ss, "cat_rank_limit")
        /\ C17_NoRowPasses(cat_load_data(db), ss["cat_rank_limit"],
                           ss["cat_year_range"]))
          => C17_MessageOnly(out, "no category")
    /\ (page = "Ranking" /\ ss["search_total"] = 0)
          => C17_MessageOnly(out, "no match")

\* the year slider of the Mechanics page was moved to a range that holds no
\* game
C17_Witness ==
    /\ ev.type = "year_range"
    /\ page = "Mechanics"
    /\ mech_load_data(db) # <<>>
    /\ C17_NoRowPasses(mech_load_data(db), ss["rank_limit"], ss["year_range"])
    /\ out.msg = "no data"
(* C18 *)
\* the quantity of group a that the metric m names
C18_Quantity(a, m) ==
    IF m = "Popularity" THEN a.count * 1000
    ELSE IF m = "Quality" THEN avg_geek(a)
    ELSE impact_column(a)

\* the rows of mech_df that have a value under the active metric
C18_Valued ==
    {i \in DOMAIN calc.mech_df :
        C18_Quantity(calc.mech_df[i], calc.metric_label) # Null}

C18_Kept == {calc.bars[j].name : j \in DOMAIN calc.bars}

C18_Lines ==
    \A l \in calc.lines : \A a \in calc.group :
        l.site \in {"mechanics", "categories", "bar"}
            => l.value = C18_Quantity(a, calc.metric_label)

C18_Bars ==
    /\ Len(calc.bars) = Min(BAR_TOP, Cardinality(C18_Valued))
    /\ Cardinality(C18_Kept) = Len(calc.bars)
    /\ \A j \in DOMAIN calc.bars :
          /\ calc.bars[j].name \in C18_Valued
          /\ calc.bars[j].value
                = C18_Quantity(calc.mech_df[calc.bars[j].name], calc.metric_label)
          /\ \A i \in C18_Valued \ C18_Kept :
                C18_Quantity(calc.mech_df[i], calc.metric_label) <= calc.bars[j].value

\* C18: the active metric selects the plotted value: Popularity plots
\* count, Quality plots avg_geek, Impact plots impact, for every group of
\* the Mechanics line chart, of the Categories line chart and of the
\* top-mechanics bar chart; the bar chart keeps the at most 20 mechanics of
\* largest value of the active metric.
C18_MetricSelectsValue ==
    /\ "charts" \in calc.done => C18_Lines
    /\ "bars" \in calc.done => C18_Bars

\* a bar chart by impact of more than 20 mechanics that have a value: 20
\* are kept, one that is left out has a value
C18_Witness ==
    /\ "bars" \in calc.done
    /\ calc.metric_label = "Impact"
    /\ Len(calc.bars) = BAR_TOP
    /\ Cardinality(C18_Valued) > BAR_TOP
    /\ \E i \in C18_Valued \ C18_Kept :
          C18_Quantity(calc.mech_df[i], "Impact") < calc.bars[BAR_TOP].value
(* C19 *)
\* the rows of the frame whose rating is not missing, and the sum of their
\* ratings (in tenths)
C19_Rated == {i \in DOMAIN calc.rows : calc.rows[i].geek # Null}

RECURSIVE C19_Sum(_)
C19_Sum(I) ==
    IF I = {} THEN 0
    ELSE LET i == CHOOSE j \in I : TRUE
         IN  calc.rows[i].geek + C19_Sum(I \ {i})

\* count is the number of distinct games of the group; avg_geek is the mean
\* of the ratings that are not missing (to a thousandth), NaN if all are
C19_Group(a) ==
    /\ a.count = Cardinality({calc.rows[i].id : i \in DOMAIN calc.rows})
    /\ C19_Rated = {} => avg_geek(a) = Null
    /\ C19_Rated # {} =>
          /\ avg_geek(a) * Cardinality(C19_Rated) <= C19_Sum(C19_Rated) * 100
          /\ C19_Sum(C19_Rated) * 100 < (avg_geek(a) + 1) * Cardinality(C19_Rated)

\* v is avg_geek * ln(count + 1) of group a, to a thousandth
C19_Impact(a, v) ==
    IF avg_geek(a) = Null THEN v = Null
    ELSE /\ v # Null
         /\ v * 1000 <= avg_geek(a) * LnMilli[a.count + 1]
         /\ avg_geek(a) * LnMilli[a.count + 1] < (v + 1) * 1000

\* the impact column of compute_impact for the group at hand
C19_Formula ==
    /\ ("groupby" \in calc.done /\ calc.rows # <<>>)
          => \A a \in calc.group : C19_Group(a)
    /\ "charts" \in calc.done
          => \A a \in calc.group : \A l \in calc.lines :
                l.site = "compute_impact" => C19_Impact(a, l.value)

\* the impact of the example grouping (count = 50, avg_geek = 7.0) is
\* shown, to two decimals, as h hundredths
C19_Example(h) ==
    ("charts" \in calc.done /\ calc.group = {ExampleGroup})
        => \A l \in calc.lines : l.site = "compute_impact" => Fmt2(l.value) = h

\* C19 as stated: for every non-empty grouping count is the number of
\* distinct games, avg_geek the mean geek rating ignoring missing values,
\* impact = avg_geek * ln(count + 1) within tolerance; count = 50 and
\* avg_geek = 7.0 give about 27.49.
C19_ImpactAsStated == C19_Formula /\ C19_Example(2749)

\* C19, amended: the same, and count = 50 and avg_geek = 7.0 give about
\* 27.52.
C19_ImpactFormula == C19_Formula /\ C19_Example(2752)

\* the impact of the example grouping has been computed
C19_Witness ==
    /\ "charts" \in calc.done
    /\ calc.group = {ExampleGroup}
    /\ \E l \in calc.lines : l.site = "compute_impact" /\ l.value > 0
(* C20 *)
\* C20: the impact formula is implemented in one place that every chart
\* and metric display reuses, so any two displays of the impact of the same
\* group (Mechanics chart, Mechanics drill-down tile, Categories chart,
\* Categories bar chart) show the same value.  Stated for the groups that
\* have a rating, to two decimals.
C20_SameImpactShown ==
    ("tile" \in calc.done /\ calc.metric_label = "Impact") =>
        \A a \in calc.group :
            a.geek_n > 0 =>
                \A l \in calc.lines : \A t \in calc.tile : Fmt2(l.value) = t.imp

\* a group whose ratings are all 0.0: the charts plot an impact of 0.00,
\* the tile of the drill-down shows "-"
C20_Witness ==
    /\ "tile" \in calc.done
    /\ calc.metric_label = "Impact"
    /\ \E a \in calc.group : a.geek_n > 0 /\ a.geek_sum = 0
    /\ \E l \in calc.lines : l.site = "mechanics" /\ l.value = 0
    /\ \E t \in calc.tile : t.imp = Dash
(* C21 *)
\* screen o shows a drill-down pair of the Mechanics page
C21_Pair(o) == o.page = "Mechanics" /\ o.sel_mech # ""

\* a run of the Mechanics page that renders the listing of its pair, after
\* a run that showed a pair
C21_Step ==
    (C21_Pair(out) /\ C21_Pair(out') /\ out'.msg = "") =>
        /\ <<out'.sel_year, out'.sel_mech>> # <<out.sel_year, out.sel_mech>>
              => ss'["games_show_n"] = SHOW_INIT
        /\ (/\ <<out'.sel_year, out'.sel_mech>> = <<out.sel_year, out.sel_mech>>
            /\ Has(ss, "games_show_n")
            /\ ev'.type # "more")
              => ss'["games_show_n"] = ss["games_show_n"]

\* C21: on the Mechanics page, when the drill-down pair (year, mechanic) of
\* a run differs from the pair of the previous run (by a select box or by a
\* click on the chart), games_show_n is 10 when the listing is rendered;
\* when the pair is the same, the counter keeps the value the earlier
\* "show more" presses left.
C21_PairChangeResets == [][C21_Step]_vars

\* a click has moved the drill-down to a pair of more than 10 games, and
\* the counter is 10
C21_Witness ==
    /\ ev.type = "click"
    /\ C21_Pair(out)
    /\ out.click = <<out.sel_year, out.sel_mech>>
    /\ out.more
    /\ ss["games_show_n"] = SHOW_INIT
(* C22 *)
\* C22: on the Mechanics page a manual change of the Mechanic or of the
\* Year select box determines the drill-down of the run that follows it,
\* also while an earlier click selection of the chart is still active.
\* (The select box is moved to a value other than the one shown, so the
\* drill-down shows another mechanic, or another year, than before.)
C22_BoxDrivesDrillDown ==
    [][/\ (ev'.type = "mechanic_box" /\ out'.sel_mech # "")
             => out'.sel_mech # out.sel_mech
       /\ (ev'.type = "year_box" /\ out'.sel_mech # "")
             => out'.sel_year # out.sel_year]_vars

\* the Mechanic select box was changed while a clicked point is selected in
\* the chart: the drill-down shows the clicked mechanic
C22_Witness ==
    /\ ev.type = "mechanic_box"
    /\ page = "Mechanics"
    /\ out.click # NoSel
    /\ out.sel_mech = out.click[2]
    /\ ss["detail_mechanic_box"] = out.click[2]
(* C23 *)
\* C23: after every run of the Mechanics page that reaches the drill-down
\* the stored selection equals the values of the select boxes, the mechanic
\* is one of the available mechanics and the year one of the available
\* years of the chart data, whatever filters, clicks or selections came
\* before.
C23_SelectionConsistent ==
    (page = "Mechanics" /\ out.sel_mech # "") =>
        /\ ss["detail_mechanic"] = ss["detail_mechanic_box"]
        /\ ss["detail_year"] = ss["detail_year_box"]
        /\ out.sel_mech = ss["detail_mechanic"]
        /\ out.sel_year = ss["detail_year"]
        /\ ss["detail_mechanic"] \in {a.name : a \in out.chart}
        /\ ss["detail_year"] \in {a.year : a \in out.chart}

\* a select box was moved with no click selection in the chart, after the
\* filters had been moved
C23_Witness ==
    /\ ev.type \in {"mechanic_box", "year_box"}
    /\ page = "Mechanics"
    /\ out.click = NoSel
    /\ ss["rank_limit"] # RANK_DEFAULT
    /\ ss["detail_mechanic"] = ss["detail_mechanic_box"]
    /\ ss["detail_year"] = ss["detail_year_box"]
(* C24 *)
\* the groups of the mechanics with data under the filters of the sidebar
C24_Groups ==
    compute_impact(base_filter(mech_load_data(db), ss["rank_limit"], ss["year_range"]))

C24_Selected == ss["selected_mechanics"]

\* while the mode is on the selection is the first min(N, number of
\* mechanics) mechanics by impact
C24_TopN ==
    (OnMechanics /\ ss["use_impact_top_n"]) =>
        /\ Len(C24_Selected) = Min(ss["impact_top_n"], Cardinality(C24_Groups))
        /\ Cardinality(Range(C24_Selected)) = Len(C24_Selected)
        /\ \A i \in 1..Len(C24_Selected) :
              \E a \in C24_Groups :
                /\ a.name = C24_Selected[i]
                /\ \A b \in C24_Groups :
                      ImpactGreater(b, a) => \E j \in 1..(i - 1) : C24_Selected[j] = b.name

\* a run after _add_mechanic or _remove_mechanic
C24_Step ==
    /\ (ev'.type = "add" /\ ss'["mechanic_to_add"] # "") =>
          /\ ~ss'["use_impact_top_n"]
          /\ ss'["mechanic_to_add"] \in Range(ss'["selected_mechanics"])
          /\ Range(ss'["selected_mechanics"])
                = Range(C24_Selected) \cup {ss'["mechanic_to_add"]}
    /\ ev'.type = "remove" =>
          /\ ~ss'["use_impact_top_n"]
          /\ Range(ss'["selected_mechanics"]) \subseteq Range(C24_Selected)
          /\ Cardinality(Range(C24_Selected) \ Range(ss'["selected_mechanics"])) = 1

\* C24: the add and remove callbacks switch the "use Impact top N" mode off
\* and change the stored selection by that one mechanic, so after the
\* following run an added mechanic is selected and a removed one is not;
\* while the mode is on, the selection after each run is the first
\* min(N, number of mechanics) mechanics by impact.
C24_ManualSelectionKept == [][C24_Step]_vars /\ []C24_TopN

\* a mechanic outside the top N was added and is selected after the run
C24_Witness ==
    /\ ev.type = "add" /\ OnMechanics
    /\ ss["impact_top_n"] = TOPN_MIN
    /\ Len(C24_Selected) = 2
    /\ ss["mechanic_to_add"] \in Range(C24_Selected)
(* C25 *)
\* after a run that renders the sidebar every selected mechanic has data
\* under the rank and year filters
C25_OnlyValid ==
    OnMechanics => Range(ss["selected_mechanics"]) \subseteq valid_mechanics(db, ss)

\* in manual mode a run adds no mechanic to the stored selection unless
\* the search box added it
C25_Step ==
    (OnMechanics /\ OnMechanics' /\ ~ss'["use_impact_top_n"] /\ ev'.type # "add")
        => Range(ss'["selected_mechanics"]) \subseteq Range(ss["selected_mechanics"])

\* C25: after every run that renders the sidebar selected_mechanics holds
\* only mechanics with data under the current rank and year filters; in
\* manual mode a mechanic dropped this way is removed from the stored
\* selection and does not come back when the filter is widened again,
\* unless it is added again.
C25_DroppedStaysOut == []C25_OnlyValid /\ [][C25_Step]_vars

\* manual mode, the year filter was moved back to its default range: the
\* mechanic of the search box has data again and is not selected
C25_Witness ==
    /\ OnMechanics /\ ev.type = "year_range"
    /\ ss["year_range"] = <<YEAR_LO_DEFAULT, YEAR_HI_DEFAULT>>
    /\ ~ss["use_impact_top_n"]
    /\ ss["mechanic_to_add"] \in valid_mechanics(db, ss) \ Range(ss["selected_mechanics"])
(* C26 *)
\* the drill-down year and mechanic of screen o are each on the chart, the
\* pair is not
C26_NoGroup(o) ==
    /\ o.page = "Mechanics" /\ o.sel_mech # ""
    /\ o.sel_year \in {a.year : a \in o.chart}
    /\ o.sel_mech \in {a.name : a \in o.chart}
    /\ ~\E a \in o.chart : a.year = o.sel_year /\ a.name = o.sel_mech

\* the warning alone is on the screen and the pair is recorded as the last
\* selected point
C26_Warned ==
    C26_NoGroup(out) =>
        /\ out.msg = "node not found"
        /\ ~out.tiles
        /\ out.listing = <<>> /\ out.total = 0 /\ ~out.more
        /\ ss["_last_selected_point"] = <<out.sel_year, out.sel_mech>>

\* the counter is reset when the pair is not the one of the previous run
C26_Step ==
    (/\ C26_NoGroup(out')
     /\ C21_Pair(out)
     /\ <<out'.sel_year, out'.sel_mech>> # <<out.sel_year, out.sel_mech>>)
        => ss'["games_show_n"] = SHOW_INIT

\* what holds of the warning: it is shown without tiles and listing, for
\* the default selection of a new session too, and the counter is reset
\* when the run arrives at the pair from another pair
C26_WarnedNewPair == []C26_Warned /\ [][C26_Step]_vars

\* the default selection of a new session has no group
C26_DefaultSelection ==
    /\ ev.type = "start"
    /\ C26_NoGroup(out)
    /\ out.msg = "node not found"
    /\ ss["games_show_n"] = SHOW_INIT

\* C26: when the drill-down year and mechanic are each available and the
\* chart data has no group for the pair, the run shows the "node not found"
\* warning, no metric tiles and no listing, and games_show_n is reset to 10
\* for that pair.
C26_NodeNotFound ==
    C26_NoGroup(out) =>
        /\ out.msg = "node not found"
        /\ ~out.tiles
        /\ out.listing = <<>> /\ out.total = 0 /\ ~out.more
        /\ ss["games_show_n"] = SHOW_INIT

\* the rank filter took the group of the selected pair away after "show
\* more": the warning is shown and the counter is not 10
C26_Witness ==
    /\ ev.type = "rank_limit"
    /\ C26_NoGroup(out)
    /\ out.msg = "node not found"
    /\ ss["_last_selected_point"] = <<out.sel_year, out.sel_mech>>
    /\ ss["games_show_n"] = SHOW_INIT + 1
====
